---------------------------- MODULE Spec2Model ----------------------------
(***************************************************************************)
(* A model of pctools: the tenor Label and Bucket of pypctools/Bucket.py,  *)
(* the day counting and the calendar cache of pypctools/Calendar.py and    *)
(* the rate/factor conversions, the Curve bootstrap and the interpolation  *)
(* of Curve_bkp.py, and the CSVDataAppender of DEV_BSB/utils.              *)
(*                                                                         *)
(* Each subsystem has its own specification (SpecLabel, SpecCompare,       *)
(* SpecToDate, SpecBucket, SpecRate, SpecCurve, SpecCalendar,              *)
(* SpecThreads, SpecAppender); the variables of the other subsystems stay  *)
(* at their idle value.  Python floats are modelled by exact rationals <<n, d>>, so      *)
(* "equal" below means equal before floating-point rounding.               *)
(***************************************************************************)
EXTENDS Integers, Sequences, FiniteSets, TLC

VARIABLES
    labelArg,   \* the argument handed to Label(...)
    labelRes,   \* what Label(...) returned or raised
    bucketArgs, \* the labels and values handed to Bucket(...)
    bucket,     \* the Bucket built by Bucket(labels, values)
    distRes,    \* what Bucket.distribute_values returned or raised
    rateArgs,   \* the arguments of rate2fct / fct2rate
    rateRes,    \* the factor and the rate computed from them
    curveCfg,   \* the keyword arguments of Curve(...)
    curve,      \* the Curve built, or the error raised
    query,      \* the last interp / fra_interp call on the Curve and its outcome
    calendars,  \* the module's _CALENDARS dict
    loads,      \* how many times each calendar was read from its file so far
    callers,    \* each caller's calendar lookup: its arguments, position and outcome
    toDate,     \* the last Label.to_date call and its outcome
    compared,   \* the last pair of objects compared and what each operator gave
    appender    \* the CSVDataAppender: its frame, its file and its last append_row call

vars == <<labelArg, labelRes, bucketArgs, bucket, distRes, rateArgs, rateRes, curveCfg, curve,
          query, calendars, loads, callers, toDate, compared, appender>>

-----------------------------------------------------------------------------
(* Bounds of the model *)

\* the longest text handed to Label, counted in pieces of LabelPieces
MaxChunks == 4
\* the most label/value pairs handed to Bucket
MaxSrc == 2
\* the most target labels handed to distribute_values
MaxTgt == 2
\* the last date of the model
MaxDate == 3
\* the most segments handed to Curve
MaxSeg == 3
\* the most codes in the cal string of a calendar lookup
MaxCodes == 2
\* the callers that look calendars up at the same time
MaxCallers == 2
\* the most append_row calls made on one CSVDataAppender
MaxCalls == 3
\* the most rows of the CSV file a CSVDataAppender is opened on
MaxRows == 2

-----------------------------------------------------------------------------
(* Generic helpers *)

Abs(x) == IF x < 0 THEN -x ELSE x

RECURSIVE GCD(_, _)
GCD(a, b) == IF b = 0 THEN a ELSE GCD(b, a % b)

\* the concatenation of the first n sequences of ss
RECURSIVE FlattenTo(_, _)
FlattenTo(ss, n) == IF n = 0 THEN <<>> ELSE FlattenTo(ss, n - 1) \o ss[n]

Flatten(ss) == FlattenTo(ss, Len(ss))

SeqsUpTo(S, lo, hi) == UNION {[1..n -> S] : n \in lo..hi}

-----------------------------------------------------------------------------
(* Label: pypctools/Bucket.py *)

Digits == {"0", "1", "2", "3", "4", "5", "6", "7", "8", "9"}
Units == {"Y", "M", "W", "D"}
\* characters str.isupper() sees as cased
UpperChars == Units \cup {"A"}
LowerChars == {"d", "y"}

DigitVal(c) ==
    CASE c = "0" -> 0 [] c = "1" -> 1 [] c = "2" -> 2 [] c = "3" -> 3
      [] c = "4" -> 4 [] c = "5" -> 5 [] c = "6" -> 6 [] c = "7" -> 7
      [] c = "8" -> 8 [] c = "9" -> 9

\* int(tup[0])
RECURSIVE IntOf(_)
IntOf(ds) ==
    IF ds = <<>> THEN 0
    ELSE 10 * IntOf(SubSeq(ds, 1, Len(ds) - 1)) + DigitVal(ds[Len(ds)])

\* str.isupper(): at least one cased character and no lowercase one
IsUpperStr(s) ==
    /\ \E i \in 1..Len(s) : s[i] \in UpperChars
    /\ \A i \in 1..Len(s) : s[i] \notin LowerChars

\* the index after the run of digits starting at p
RECURSIVE DigitsEnd(_, _)
DigitsEnd(s, p) ==
    IF p <= Len(s) /\ s[p] \in Digits THEN DigitsEnd(s, p + 1) ELSE p

\* _single_label_pat.findall(label): the non-overlapping matches of
\* (\d+)([YMWD]), scanning from the left
RECURSIVE FindAllFrom(_, _)
FindAllFrom(s, p) ==
    IF p > Len(s) THEN <<>>
    ELSE IF s[p] \in Digits
         THEN LET q == DigitsEnd(s, p)
              IN IF q <= Len(s) /\ s[q] \in Units
                 THEN <<[num |-> SubSeq(s, p, q - 1), unit |-> s[q]]>>
                          \o FindAllFrom(s, q + 1)
                 ELSE FindAllFrom(s, p + 1)
         ELSE FindAllFrom(s, p + 1)

FindAll(s) == FindAllFrom(s, 1)

\* ''.join(''.join(tup) for tup in match_list)
Rebuilt(ml) == Flatten([i \in 1..Len(ml) |-> ml[i].num \o <<ml[i].unit>>])

\* label.count(char)
CountChar(s, c) == Cardinality({i \in 1..Len(s) : s[i] = c})

\* max(label.count(char) for char in letters) not in (0, 1)
RepeatedLetters(s, ml) == \E i \in 1..Len(ml) : CountChar(s, ml[i].unit) > 1

LetterOrder(c) == CASE c = "Y" -> 0 [] c = "M" -> 1 [] c = "W" -> 2 [] c = "D" -> 3

\* sorted(mapped_letters) != mapped_letters
OutOfOrder(ml) ==
    /\ Len(ml) > 1
    /\ \E i \in 1..(Len(ml) - 1) : LetterOrder(ml[i].unit) > LetterOrder(ml[i + 1].unit)

\* self._letter_map: later assignments override earlier ones
LetterMap(ml) ==
    [c \in Units |->
        IF \E i \in 1..Len(ml) : ml[i].unit = c
        THEN LET last == CHOOSE i \in 1..Len(ml) :
                            /\ ml[i].unit = c
                            /\ \A j \in (i + 1)..Len(ml) : ml[j].unit # c
             IN IntOf(ml[last].num)
        ELSE 0]

\* the mutation of DcCount: the month weighted like a week
DcCountWeekMonth(lm) == 1 * lm["D"] + 7 * lm["W"] + 7 * lm["M"] + 360 * lm["Y"]

\* self._dc_count
DcCount(lm) == 1 * lm["D"] + 7 * lm["W"] + 30 * lm["M"] + 360 * lm["Y"]

NoLetterMap == [c \in Units |-> 0]
LabelError(e) == [st |-> e, label |-> <<>>, letter_map |-> NoLetterMap, dc_count |-> 0]

\* the mutation of LabelOfStr: the repeated-letter check left out
LabelOfStrNoRepeatCheck(s) ==
    LET ml == FindAll(s)
    IN IF ~IsUpperStr(s) THEN LabelError("ValueError")
       ELSE IF ml = <<>> THEN LabelError("ValueError")
       ELSE IF Rebuilt(ml) # s THEN LabelError("ValueError")
       ELSE IF OutOfOrder(ml) THEN LabelError("ValueError")
       ELSE [st |-> "ok", label |-> s, letter_map |-> LetterMap(ml),
             dc_count |-> DcCount(LetterMap(ml))]

\* Label.__init__ on a str
LabelOfStr(s) ==
    LET ml == FindAll(s)
    IN IF ~IsUpperStr(s) THEN LabelError("ValueError")
       ELSE IF ml = <<>> THEN LabelError("ValueError")
       ELSE IF Rebuilt(ml) # s THEN LabelError("ValueError")
       ELSE IF RepeatedLetters(s, ml) THEN LabelError("ValueError")
       ELSE IF OutOfOrder(ml) THEN LabelError("ValueError")
       ELSE [st |-> "ok", label |-> s, letter_map |-> LetterMap(ml),
             dc_count |-> DcCount(LetterMap(ml))]

\* Label(arg): __new__ hands a Label back as it is, __init__ parses a str
\* and refuses every other type
LabelNew(arg) ==
    CASE arg.kind = "Label" -> arg.obj
      [] arg.kind = "str" -> LabelOfStr(arg.text)
      [] OTHER -> LabelError("TypeError")

\* the pieces the texts handed to Label are made of
LabelPieces ==
    { <<"1", "Y">>, <<"2", "M">>, <<"1", "W">>, <<"0", "D">>,
      <<"1">>, <<"D">>, <<"d">>, <<" ">> }

LabelTexts == {Flatten(ps) : ps \in SeqsUpTo(LabelPieces, 0, MaxChunks)}

NoLabelArg == [kind |-> "none", text |-> <<>>, obj |-> LabelError("none")]
NoLabelRes == LabelError("none")

LabelArgs ==
    {[kind |-> "str", text |-> s, obj |-> LabelError("none")] : s \in LabelTexts}
    \cup {[kind |-> "Label", text |-> <<>>, obj |-> LabelOfStr(s)] :
            s \in {t \in LabelTexts : LabelOfStr(t).st = "ok"}}
    \cup {[kind |-> "other", text |-> <<>>, obj |-> LabelError("none")]}

\* what a comparison gives: a bool, or the TypeError it raises
Gives(v) == [st |-> "ok", v |-> v]
RaisesTypeError == [st |-> "TypeError", v |-> FALSE]

\* the other operand of a comparison: a Label, or an object of another type
OtherLabel(obj) == [isLabel |-> TRUE, obj |-> obj]
NotALabel == [isLabel |-> FALSE, obj |-> LabelError("none")]

\* Label.__repr__
label_repr(self) == <<"<Label ">> \o self.label \o <<">">>

\* hash(s) of a str: the same for the same text, and for two texts the same
\* only when they collide under the process's string hash seed (collide)
StrHash(s, collide) == IF collide THEN <<>> ELSE s

\* Label.__hash__
label_hash(self, collide) == StrHash(label_repr(self), collide)

\* Label.__eq__
label_eq(self, other) ==
    IF ~other.isLabel THEN RaisesTypeError
    ELSE Gives(self.dc_count = other.obj.dc_count)

\* the mutation of label_le: the keys compared with <
label_le_strict(self, other) ==
    IF ~other.isLabel THEN RaisesTypeError
    ELSE Gives(self.dc_count < other.obj.dc_count)

\* Label.__le__
label_le(self, other) ==
    IF ~other.isLabel THEN RaisesTypeError
    ELSE Gives(self.dc_count <= other.obj.dc_count)

\* object.__ne__: the inverse of __eq__
label_ne(self, other) ==
    LET e == label_eq(self, other)
    IN IF e.st # "ok" THEN e ELSE Gives(~e.v)

\* functools.total_ordering, _lt_from_le: op_result and self != other
label_lt(self, other) ==
    LET op_result == label_le(self, other)
    IN IF op_result.st # "ok" THEN op_result
       ELSE IF ~op_result.v THEN Gives(FALSE)
       ELSE label_ne(self, other)

\* functools.total_ordering, _gt_from_le: not op_result
label_gt(self, other) ==
    LET op_result == label_le(self, other)
    IN IF op_result.st # "ok" THEN op_result ELSE Gives(~op_result.v)

\* functools.total_ordering, _ge_from_le: not op_result or self == other
label_ge(self, other) ==
    LET op_result == label_le(self, other)
    IN IF op_result.st # "ok" THEN op_result
       ELSE IF ~op_result.v THEN Gives(TRUE)
       ELSE label_eq(self, other)

\* the Labels Label(text) makes of the texts
ValidLabels == {LabelOfStr(t) : t \in {u \in LabelTexts : LabelOfStr(u).st = "ok"}}

-----------------------------------------------------------------------------
(* Rationals <<n, d>> with d > 0 in lowest terms; <<0, 0>> is NaN *)

NaN == <<0, 0>>
IsNaN(a) == a[2] = 0

Norm(n, d) ==
    IF d = 0 THEN NaN
    ELSE LET g == GCD(Abs(n), Abs(d))
             s == IF d < 0 THEN -1 ELSE 1
         IN <<(s * n) \div g, (s * d) \div g>>

R(n) == <<n, 1>>
RAdd(a, b) == IF IsNaN(a) \/ IsNaN(b) THEN NaN
              ELSE LET g == GCD(a[2], b[2])
                   IN Norm(a[1] * (b[2] \div g) + b[1] * (a[2] \div g),
                           (a[2] \div g) * b[2])
RNeg(a) == <<-a[1], a[2]>>
RSub(a, b) == RAdd(a, RNeg(b))
RMul(a, b) == IF IsNaN(a) \/ IsNaN(b) THEN NaN
              ELSE LET g == GCD(Abs(a[1]), b[2])
                       h == GCD(Abs(b[1]), a[2])
                   IN Norm((a[1] \div g) * (b[1] \div h), (a[2] \div h) * (b[2] \div g))
\* a / b for b # 0
RDiv(a, b) == IF IsNaN(a) \/ IsNaN(b) THEN NaN
              ELSE IF b[1] < 0 THEN RMul(a, <<-b[2], -b[1]>>) ELSE RMul(a, <<b[2], b[1]>>)
\* comparisons with NaN are false, as in IEEE 754
RLt(a, b) == ~IsNaN(a) /\ ~IsNaN(b) /\ a[1] * b[2] < b[1] * a[2]
RLe(a, b) == ~IsNaN(a) /\ ~IsNaN(b) /\ a[1] * b[2] <= b[1] * a[2]
RAbs(a) == <<Abs(a[1]), a[2]>>

\* the sum of the first n elements of qs
RECURSIVE RSumTo(_, _)
RSumTo(qs, n) == IF n = 0 THEN R(0) ELSE RAdd(RSumTo(qs, n - 1), qs[n])

RSum(qs) == RSumTo(qs, Len(qs))

-----------------------------------------------------------------------------
(* Bucket: pypctools/Bucket.py *)

StrArg(s) == [kind |-> "str", text |-> s, obj |-> LabelError("none")]

\* a Label object handed over as an argument; oid tells which object it is:
\* the Label of the oid-th entry of the Bucket it was taken from
LabelObjArg(obj, oid) == [kind |-> "Label", text |-> <<>>, obj |-> obj, oid |-> oid]

\* the mutation of ObjectOf: Label(arg) makes a new object of a Label too
ObjectOfAlwaysNew(arg) == 0

\* the object Label(arg) returns: the argument itself for a Label, and
\* otherwise a new object (0), which nothing else holds
ObjectOf(arg) == IF arg.kind = "Label" THEN arg.oid ELSE 0

\* the first label of the sequence that Label(...) refuses, 0 if none
FirstBadLabel(ls) ==
    IF \E i \in 1..Len(ls) : ls[i].st # "ok"
    THEN CHOOSE i \in 1..Len(ls) :
            /\ ls[i].st # "ok"
            /\ \A j \in 1..(i - 1) : ls[j].st = "ok"
    ELSE 0

\* Whether pd.Index.unique() takes two labels for the same element.  Its hash
\* table compares with Label.__eq__ (the day-count keys) only the elements it
\* finds in the same slot, and the slot comes from Label.__hash__, the hash of
\* the label's text: two labels of the same text always meet, two labels
\* written differently meet only when the hashes of their texts collide in
\* the table (collide), which depends on the process's string hash seed.
SameElement(a, b, collide) ==
    \/ a.label = b.label
    \/ (collide /\ a.dc_count = b.dc_count)

\* the mutation of HasDuplicates: the uniqueness check never fires
HasDuplicatesNever(ls, collide) == FALSE

\* not ix.equals(ix.unique())
HasDuplicates(ls, collide) ==
    \E i, j \in 1..Len(ls) : i < j /\ SameElement(ls[i], ls[j], collide)

Perms(n) == {p \in [1..n -> 1..n] : \A i, j \in 1..n : i # j => p[i] # p[j]}

\* the mutation of SortedOrders: the index is left in the order supplied
SortedOrdersUnsorted(ls) == {[i \in 1..Len(ls) |-> i]}

\* self.sort_index(inplace=True): the orders an ascending sort by Label
\* comparison (the day-count key) may leave the entries in; the order of
\* entries of equal key is the sorting algorithm's
SortedOrders(ls) ==
    {p \in Perms(Len(ls)) :
        \A i \in 1..(Len(ls) - 1) : ls[p[i]].dc_count <= ls[p[i + 1]].dc_count}

BucketError(e) == [st |-> e, entries |-> <<>>]

\* Bucket(labels, values): every Bucket the constructor may build, or the
\* error it raises.  values = <<>> with given = FALSE is values=None, which
\* pandas fills with NaN.
BucketNew(labels, given, values, collide) ==
    LET ls == [i \in 1..Len(labels) |-> LabelNew(labels[i])]
        vs == [i \in 1..Len(labels) |-> IF given THEN values[i] ELSE NaN]
        bad == FirstBadLabel(ls)
    IN IF bad # 0 THEN {BucketError(ls[bad].st)}
       ELSE IF HasDuplicates(ls, collide) THEN {BucketError("ValueError")}
       ELSE {[st |-> "ok",
              entries |-> [i \in 1..Len(ls) |->
                              [label |-> ls[p[i]].label,
                               dc_count |-> ls[p[i]].dc_count,
                               value |-> vs[p[i]],
                               oid |-> ObjectOf(labels[p[i]])]]] : p \in SortedOrders(ls)}

\* find_closest returns None for a side without a target
None == -1

\* a value given as None; a Series whose values are all None keeps them, as
\* objects
PyNone == <<0, -1>>

\* np.isnan(self.values) raises TypeError on an array of objects
IsnanFails(values) == \E i \in 1..Len(values) : values[i] = PyNone

\* next(dropwhile(lambda to_nd: to_nd > nd, reversed(to_ndays)))
FindLeft(to_ndays, nd) ==
    IF \E i \in 1..Len(to_ndays) : ~(to_ndays[i] > nd)
    THEN LET i == CHOOSE i \in 1..Len(to_ndays) :
                    /\ ~(to_ndays[i] > nd)
                    /\ \A j \in (i + 1)..Len(to_ndays) : to_ndays[j] > nd
         IN to_ndays[i]
    ELSE None

\* the mutation of FindRight: the true nearest target at or above nd
FindRightNearest(to_ndays, nd) ==
    IF \E i \in 1..Len(to_ndays) : to_ndays[i] >= nd
    THEN LET i == CHOOSE i \in 1..Len(to_ndays) :
                    /\ to_ndays[i] >= nd
                    /\ \A j \in 1..Len(to_ndays) :
                          to_ndays[j] >= nd => to_ndays[i] <= to_ndays[j]
         IN to_ndays[i]
    ELSE None

\* next(dropwhile(lambda to_nd: to_nd < nd, to_ndays))
FindRight(to_ndays, nd) ==
    IF \E i \in 1..Len(to_ndays) : ~(to_ndays[i] < nd)
    THEN LET i == CHOOSE i \in 1..Len(to_ndays) :
                    /\ ~(to_ndays[i] < nd)
                    /\ \A j \in 1..(i - 1) : to_ndays[j] < nd
         IN to_ndays[i]
    ELSE None

\* to_ndays.index(x): the first position holding x
IndexOf(to_ndays, x) ==
    CHOOSE i \in 1..Len(to_ndays) :
        /\ to_ndays[i] = x
        /\ \A j \in 1..(i - 1) : to_ndays[j] # x

\* round(x, 7) == 1
RoundsToOne(x) ==
    /\ RLe(RSub(x, R(1)), <<1, 20000000>>)
    /\ RLe(RSub(R(1), x), <<1, 20000000>>)

Zeros(n) == [i \in 1..n |-> R(0)]
AddAt(xs, i, v) == [j \in 1..Len(xs) |-> IF j = i THEN RAdd(xs[j], v) ELSE xs[j]]

\* the mutation of Accumulate: `=` written for `+=`
AccumulateOverwrite(distributed, delta) ==
    [i \in 1..Len(distributed) |->
        IF delta[i] # R(0) THEN delta[i] ELSE distributed[i]]

\* the mutation of Accumulate: each addition lands one position further on
AccumulateShifted(distributed, delta) ==
    [i \in 1..Len(distributed) |->
        RAdd(distributed[i], delta[IF i = 1 THEN Len(delta) ELSE i - 1])]

\* distributed[...] += ...
Accumulate(distributed, delta) ==
    [i \in 1..Len(distributed) |-> RAdd(distributed[i], delta[i])]

\* one turn of the loop over self.iteritems(): find_closest, then the
\* additions to `distributed`.  acc.allocs records, per source entry, what the
\* turn added to each target.
Allocate(acc, to_ndays, entry) ==
    LET nd == entry.dc_count
        value == entry.value
        nd_left == FindLeft(to_ndays, nd)
        nd_right == FindRight(to_ndays, nd)
        n == Len(to_ndays)
        failed == [acc EXCEPT !.st = "AssertionError"]
        put(delta) == [acc EXCEPT
                         !.distributed = Accumulate(acc.distributed, delta),
                         !.allocs = Append(acc.allocs, delta)]
    IN IF acc.st # "ok" THEN acc
       ELSE IF nd_left = None /\ nd_right = None THEN failed
       ELSE IF nd_left = None
            THEN put(AddAt(Zeros(n), IndexOf(to_ndays, nd_right), value))
       ELSE IF nd_right = None
            THEN put(AddAt(Zeros(n), IndexOf(to_ndays, nd_left), value))
       ELSE IF nd_left = nd_right
            THEN put(AddAt(Zeros(n), IndexOf(to_ndays, nd_left), value))
       ELSE LET perc_left == Norm(nd_right - nd, nd_right - nd_left)
                perc_right == Norm(nd - nd_left, nd_right - nd_left)
            IN IF ~(RLt(R(0), perc_left) /\ RLt(perc_left, R(1))) THEN failed
               ELSE IF ~(RLt(R(0), perc_right) /\ RLt(perc_right, R(1))) THEN failed
               ELSE IF ~RoundsToOne(RAdd(perc_left, perc_right)) THEN failed
               ELSE put(AddAt(AddAt(Zeros(n),
                                    IndexOf(to_ndays, nd_left), RMul(perc_left, value)),
                              IndexOf(to_ndays, nd_right), RMul(perc_right, value)))

\* the loop over the first n entries
RECURSIVE AllocateAll(_, _, _, _)
AllocateAll(acc, to_ndays, entries, n) ==
    IF n = 0 THEN acc
    ELSE Allocate(AllocateAll(acc, to_ndays, entries, n - 1), to_ndays, entries[n])

EntryValues(b) == [i \in 1..Len(b.entries) |-> b.entries[i].value]

\* np.isclose(np.sum(distributed), np.sum(self.values), rtol=0, atol=1e-2)
SumIsClose(distributed, values) ==
    RLe(RAbs(RSub(RSum(distributed), RSum(values))), <<1, 100>>)

DistError(e, verts, to_ndays, distributed, allocs) ==
    [st |-> e, verts |-> verts, to_ndays |-> to_ndays, distributed |-> distributed,
     allocs |-> allocs, array |-> <<>>, bkt |-> BucketError("none")]

\* self.distribute_values(verts, return_bucket=...): every outcome
DistributeValues(self, verts, return_bucket, collide) ==
    LET vs == [i \in 1..Len(verts) |-> LabelNew(verts[i])]
        bad == FirstBadLabel(vs)
        to_ndays == [i \in 1..Len(vs) |-> vs[i].dc_count]
        start == [st |-> "ok", distributed |-> Zeros(Len(vs)), allocs |-> <<>>]
        acc == AllocateAll(start, to_ndays, self.entries, Len(self.entries))
    IN IF IsnanFails(EntryValues(self))
       THEN {DistError("TypeError", verts, <<>>, <<>>, <<>>)}
       ELSE IF \E i \in 1..Len(self.entries) : IsNaN(self.entries[i].value)
       THEN {DistError("ValueError", verts, <<>>, <<>>, <<>>)}
       ELSE IF bad # 0
       THEN {DistError(vs[bad].st, verts, <<>>, <<>>, <<>>)}
       ELSE IF acc.st # "ok"
       THEN {DistError(acc.st, verts, to_ndays, acc.distributed, acc.allocs)}
       ELSE IF ~SumIsClose(acc.distributed, EntryValues(self))
       THEN {DistError("AssertionError", verts, to_ndays, acc.distributed, acc.allocs)}
       ELSE IF return_bucket
       THEN {IF b.st = "ok"
             THEN [DistError("ok", verts, to_ndays, acc.distributed, acc.allocs)
                       EXCEPT !.bkt = b]
             ELSE DistError(b.st, verts, to_ndays, acc.distributed, acc.allocs) :
                b \in BucketNew(verts, TRUE, acc.distributed, collide)}
       ELSE {[DistError("ok", verts, to_ndays, acc.distributed, acc.allocs)
                  EXCEPT !.array = acc.distributed]}

L1Y == <<"1", "Y">>
L12M == <<"1", "2", "M">>
L500D == <<"5", "0", "0", "D">>
L2Y == <<"2", "Y">>
L3Y == <<"3", "Y">>

\* the labels and values Buckets are built from, and the target labels
SrcPool == {L1Y, L12M, L500D, L3Y}
TgtPool == {L1Y, L2Y, L3Y}
ValuePool == {R(100), R(-100), NaN}

NoBucketArgs == [labels |-> <<>>, given |-> FALSE, values |-> <<>>]
NoBucket == [st |-> "none", entries |-> <<>>]
NoDist == DistError("none", <<>>, <<>>, <<>>, <<>>)



-----------------------------------------------------------------------------
(* Calendar: pypctools/Calendar.py.  A date is its number of days after     *)
(* Thursday 2016-12-29, so that the dates of the model hold two business    *)
(* days, a weekend and the turn of a leap year.                             *)

Dates == 0..MaxDate

\* Monday is 0, as numpy's weekmask has it
Weekday(d) == (d + 3) % 7
IsWeekend(d) == Weekday(d) \in {5, 6}

\* the holidays _load_calendar reads from Calendars/<cal>.xml, files that are
\* data of the package: New Year's Day for BRL, the Friday before it for USD
Holidays(cal) == CASE cal = "BRL" -> {3} [] cal = "USD" -> {1} [] OTHER -> {}

\* np.is_busday(dates, busdaycal=bdaycal)
IsBusday(d, cal) == ~IsWeekend(d) /\ d \notin Holidays(cal)

BusdaysIn(lo, hi, cal) == Cardinality({d \in lo..hi : IsBusday(d, cal)})

\* np.busday_count(start, end, busdaycal=bdaycal): the business days of
\* [start, end); for end < start the negated count of [end, start), or since
\* numpy 1.25 (fixed) of (end, start]
BusdayCount(start, end, cal, fixed) ==
    IF start <= end THEN BusdaysIn(start, end - 1, cal)
    ELSE IF fixed THEN -BusdaysIn(end + 1, start, cal)
    ELSE -BusdaysIn(end, start - 1, cal)

\* bdbetween(start_dates, end_dates, cal=cal)
bdbetween(start, end, cal, fixed) == BusdayCount(start, end, cal, fixed)

\* pd.Timestamp(str(year)): the first day of the year
YearStart(y) ==
    CASE y = 2016 -> -363 [] y = 2017 -> 3 [] y = 2018 -> 368 [] y = 2019 -> 733
      [] y = 2020 -> 1098 [] y = 2021 -> 1464
YearOf(d) == CHOOSE y \in 2016..2020 : YearStart(y) <= d /\ d < YearStart(y + 1)
IsLeapYear(y) == (y % 4 = 0 /\ y % 100 # 0) \/ y % 400 = 0

\* one turn of the loop over the years in act_act_term
ActActYear(start, end, year) ==
    LET den == IF IsLeapYear(year) THEN 366 ELSE 365
        num == IF year = YearOf(start) /\ year = YearOf(end) THEN end - start
               ELSE IF year = YearOf(start) THEN YearStart(year + 1) - start
               ELSE IF year = YearOf(end) THEN end - YearStart(year)
               ELSE YearStart(year + 1) - YearStart(year)
    IN Norm(num, den)

\* the sum over range(start.year, year + 1)
RECURSIVE ActActSum(_, _, _)
ActActSum(start, end, year) ==
    IF year < YearOf(start) THEN R(0)
    ELSE RAdd(ActActSum(start, end, year - 1), ActActYear(start, end, year))

\* the mutation of act_act_term: the sign of swapped dates is lost
act_act_term_unsigned(start, end) ==
    IF start > end
    THEN ActActSum(end, start, YearOf(start))
    ELSE ActActSum(start, end, YearOf(end))

\* act_act_term(start, end)
act_act_term(start, end) ==
    IF start > end
    THEN RNeg(ActActSum(end, start, YearOf(start)))
    ELSE ActActSum(start, end, YearOf(end))

DayCounts == {"BUS/252", "ACT/360", "ACT/365", "ACT/ACT"}

\* _calc_term(start_dates, end_dates, day_count=day_count, cal=cal)
calc_term(start, end, day_count, cal, fixed) ==
    CASE day_count = "BUS/252" -> Norm(bdbetween(start, end, cal, fixed), 252)
      [] day_count = "ACT/ACT" -> act_act_term(start, end)
      [] day_count = "ACT/365" -> Norm(end - start, 365)
      [] day_count = "ACT/360" -> Norm(end - start, 360)

-----------------------------------------------------------------------------
(* The numbers of Curve_bkp.py.  A float is modelled exactly, as one of     *)
(*   rat   the rational q                                                   *)
(*   prod  the product of b^m[b] over the bases b of m                      *)
(*   pm1   q times (such a product, minus 1)                                *)
(*   log   the sum of m[b] * ln(b) over the bases b of m                    *)
(*   nan, inf, ninf   the IEEE 754 values numpy computes with               *)
(* The bases of m are positive rationals other than 1, taken to be          *)
(* multiplicatively independent, and Euler's number; exponents are non-zero *)
(* rationals.  undef marks an operation the model gives no value to.        *)

EulerE == <<1, 0>>
NoMap == [b \in {} |-> R(0)]

Rat(q) == [t |-> "rat", q |-> q, m |-> NoMap]
Special(tag) == [t |-> tag, q |-> R(0), m |-> NoMap]
WithMap(tag, m) == [t |-> tag, q |-> R(0), m |-> m]

MClean(f) == [b \in {x \in DOMAIN f : f[x] # R(0)} |-> f[b]]
MSingle(b, e) == IF e = R(0) \/ b = R(1) THEN NoMap ELSE [x \in {b} |-> e]
MGet(f, b) == IF b \in DOMAIN f THEN f[b] ELSE R(0)
MTimes(f, g) == MClean([b \in DOMAIN f \cup DOMAIN g |-> RAdd(MGet(f, b), MGet(g, b))])
MScale(f, c) == MClean([b \in DOMAIN f |-> RMul(f[b], c)])

\* the number a product of powers is
FromProd(m) ==
    IF DOMAIN m = {} THEN Rat(R(1))
    ELSE IF \E b \in DOMAIN m : DOMAIN m = {b} /\ b # EulerE /\ m[b] = R(1)
         THEN Rat(CHOOSE b \in DOMAIN m : TRUE)
         ELSE WithMap("prod", m)

\* the number a sum of logarithms is
FromLog(m) ==
    IF DOMAIN m = {} THEN Rat(R(0))
    ELSE IF DOMAIN m = {EulerE} THEN Rat(m[EulerE])
    ELSE WithMap("log", m)

IsInteger(q) == q[2] = 1

RECURSIVE RPowNat(_, _)
RPowNat(q, n) == IF n = 0 THEN R(1) ELSE RMul(q, RPowNat(q, n - 1))

\* x * y
NumMul(x, y) ==
    CASE x.t = "nan" \/ y.t = "nan" -> Special("nan")
      [] x.t = "rat" /\ y.t = "rat" -> Rat(RMul(x.q, y.q))
      [] x.t = "rat" /\ y.t = "prod" /\ RLt(R(0), x.q) -> FromProd(MTimes(MSingle(x.q, R(1)), y.m))
      [] x.t = "prod" /\ y.t = "rat" /\ RLt(R(0), y.q) -> FromProd(MTimes(x.m, MSingle(y.q, R(1))))
      [] x.t = "prod" /\ y.t = "prod" -> FromProd(MTimes(x.m, y.m))
      [] OTHER -> Special("undef")

\* x / y
NumDiv(x, y) ==
    CASE x.t = "nan" \/ y.t = "nan" -> Special("nan")
      [] x.t = "rat" /\ y.t = "rat" /\ y.q # R(0) -> Rat(RDiv(x.q, y.q))
      [] x.t = "rat" /\ y.t = "rat" ->
            IF x.q = R(0) THEN Special("nan")
            ELSE IF RLt(R(0), x.q) THEN Special("inf") ELSE Special("ninf")
      [] x.t = "rat" /\ y.t = "prod" /\ RLt(R(0), x.q) ->
            FromProd(MTimes(MSingle(x.q, R(1)), MScale(y.m, R(-1))))
      [] x.t = "prod" /\ y.t = "rat" /\ RLt(R(0), y.q) ->
            FromProd(MTimes(x.m, MSingle(y.q, R(-1))))
      [] x.t = "prod" /\ y.t = "prod" -> FromProd(MTimes(x.m, MScale(y.m, R(-1))))
      [] OTHER -> Special("undef")

\* x ** e for a rational e
NumPow(x, e) ==
    CASE e = R(0) -> Rat(R(1))
      [] x.t = "nan" -> Special("nan")
      [] x.t = "rat" /\ RLt(R(0), x.q) -> FromProd(MSingle(x.q, e))
      [] x.t = "rat" /\ x.q = R(0) -> IF RLt(R(0), e) THEN Rat(R(0)) ELSE Special("inf")
      [] x.t = "rat" /\ RLt(x.q, R(0)) ->
            IF ~IsInteger(e) THEN Special("nan")
            ELSE IF e[1] > 0 THEN Rat(RPowNat(x.q, e[1]))
            ELSE Rat(RDiv(R(1), RPowNat(x.q, -e[1])))
      [] x.t = "prod" -> FromProd(MScale(x.m, e))
      [] OTHER -> Special("undef")

\* whether every power of the product is above 1, or every one below
BaseAboveOne(b) == b = EulerE \/ RLt(R(1), b)
ProdAboveOne(m) == \A b \in DOMAIN m : BaseAboveOne(b) <=> RLt(R(0), m[b])
ProdBelowOne(m) == \A b \in DOMAIN m : BaseAboveOne(b) <=> RLt(m[b], R(0))

\* x ** inf, the power 1 / term is for a term of 0.0
NumPowInf(x) ==
    CASE x.t = "nan" -> Special("nan")
      [] x.t = "rat" /\ RAbs(x.q) = R(1) -> Rat(R(1))
      [] x.t = "rat" /\ RLt(RAbs(x.q), R(1)) -> Rat(R(0))
      [] x.t = "rat" -> Special("inf")
      [] x.t = "prod" /\ ProdAboveOne(x.m) -> Special("inf")
      [] x.t = "prod" /\ ProdBelowOne(x.m) -> Rat(R(0))
      [] OTHER -> Special("undef")

\* 1 + x
NumAddOne(x) ==
    CASE x.t = "rat" -> Rat(RAdd(x.q, R(1)))
      [] x.t = "pm1" /\ x.q = R(1) -> FromProd(x.m)
      [] x.t \in {"nan", "inf", "ninf"} -> x
      [] OTHER -> Special("undef")

\* x - 1
NumSubOne(x) ==
    CASE x.t = "rat" -> Rat(RSub(x.q, R(1)))
      [] x.t = "prod" -> [t |-> "pm1", q |-> R(1), m |-> x.m]
      [] x.t \in {"nan", "inf", "ninf"} -> x
      [] OTHER -> Special("undef")

\* np.exp(x)
NumExp(x) ==
    CASE x.t = "rat" -> FromProd(MSingle(EulerE, x.q))
      [] x.t = "log" -> FromProd(x.m)
      [] x.t \in {"nan", "inf"} -> x
      [] x.t = "ninf" -> Rat(R(0))
      [] OTHER -> Special("undef")

\* np.log(x)
NumLog(x) ==
    CASE x.t = "rat" /\ RLt(R(0), x.q) -> FromLog(MSingle(x.q, R(1)))
      [] x.t = "rat" /\ x.q = R(0) -> Special("ninf")
      [] x.t = "rat" -> Special("nan")
      [] x.t = "prod" -> FromLog(x.m)
      [] x.t \in {"nan", "inf"} -> x
      [] OTHER -> Special("undef")

\* x * term for a term >= 0
NumTimesTerm(x, term) ==
    CASE x.t = "nan" -> x
      [] x.t = "rat" -> Rat(RMul(x.q, term))
      [] x.t = "log" -> FromLog(MScale(x.m, term))
      [] x.t = "pm1" -> IF term = R(0) THEN Rat(R(0)) ELSE [x EXCEPT !.q = RMul(@, term)]
      [] x.t \in {"inf", "ninf"} -> IF term = R(0) THEN Special("nan") ELSE x
      [] OTHER -> Special("undef")

\* x / term for a term >= 0; a term of 0.0 divides to nan or an infinity
NumOverTerm(x, term) ==
    CASE x.t = "nan" -> x
      [] x.t = "rat" /\ term # R(0) -> Rat(RDiv(x.q, term))
      [] x.t = "rat" /\ x.q = R(0) -> Special("nan")
      [] x.t = "rat" -> IF RLt(R(0), x.q) THEN Special("inf") ELSE Special("ninf")
      [] x.t = "log" /\ term # R(0) -> FromLog(MScale(x.m, RDiv(R(1), term)))
      [] x.t = "pm1" /\ term # R(0) -> [x EXCEPT !.q = RDiv(@, term)]
      [] x.t \in {"inf", "ninf"} -> x
      [] OTHER -> Special("undef")

-----------------------------------------------------------------------------
(* rate2fct and fct2rate: Curve_bkp.py *)

Compoundings == {"YIELD", "LINEAR", "CONTINUOUS"}

Raised(e) == [st |-> e, v |-> Special("nan")]
Returned(x) == [st |-> "ok", v |-> x]

\* rate2fct(rates, start_dates, end_dates, compounding=, day_count=, cal=)
rate2fct(rate, start, end, compounding, day_count, cal, fixed) ==
    LET term == calc_term(start, end, day_count, cal, fixed)
    IN IF RLt(term, R(0)) THEN Raised("ValueError")
       ELSE CASE compounding = "YIELD" -> Returned(NumPow(NumAddOne(rate), term))
              [] compounding = "LINEAR" -> Returned(NumAddOne(NumTimesTerm(rate, term)))
              [] compounding = "CONTINUOUS" -> Returned(NumExp(NumTimesTerm(rate, term)))
              [] OTHER -> Raised("ValueError")

\* the mutation of fct2rate: the YIELD root taken as the term-th power
fct2rateYieldPower(factor, start, end, compounding, day_count, cal, fixed) ==
    LET term == calc_term(start, end, day_count, cal, fixed)
    IN IF RLt(term, R(0)) THEN Raised("ValueError")
       ELSE CASE compounding = "YIELD" -> Returned(NumSubOne(NumPow(factor, term)))
              [] compounding = "LINEAR" -> Returned(NumOverTerm(NumSubOne(factor), term))
              [] compounding = "CONTINUOUS" -> Returned(NumOverTerm(NumLog(factor), term))
              [] OTHER -> Raised("ValueError")

\* fct2rate(factors, start_dates, end_dates, compounding=, day_count=, cal=)
fct2rate(factor, start, end, compounding, day_count, cal, fixed) ==
    LET term == calc_term(start, end, day_count, cal, fixed)
    IN IF RLt(term, R(0)) THEN Raised("ValueError")
       ELSE CASE compounding = "YIELD" ->
                    Returned(NumSubOne(IF term = R(0) THEN NumPowInf(factor)
                                       ELSE NumPow(factor, RDiv(R(1), term))))
              [] compounding = "LINEAR" -> Returned(NumOverTerm(NumSubOne(factor), term))
              [] compounding = "CONTINUOUS" -> Returned(NumOverTerm(NumLog(factor), term))
              [] OTHER -> Raised("ValueError")

-----------------------------------------------------------------------------
(* Curve.__init__: Curve_bkp.py.  The arguments a are the three arrays and  *)
(* the keywords; start_scalar tells a single start date from an array.      *)

\* np.repeat(start_dates, len(end_dates)) for a single start date
NormalizedStarts(a) ==
    IF a.start_scalar
    THEN [i \in 1..Len(a.end_dates) |-> a.start_dates[1]]
    ELSE a.start_dates

\* np.array_equal(np.sort(end_dates), end_dates)
IsSorted(xs) == \A i \in 1..(Len(xs) - 1) : xs[i] <= xs[i + 1]

\* the mutation of AllUnique: no value counts as repeated
AllUniqueSkipped(xs) == TRUE

\* len(np.unique(xs)) == len(xs)
AllUnique(xs) == Cardinality({xs[i] : i \in 1..Len(xs)}) = Len(xs)

\* bdbetween(ref_date, end_dates, cal=cal)
BusdaysFromRef(ref, ends, a) ==
    [i \in 1..Len(ends) |-> bdbetween(ref, ends[i], a.cal, a.numpy125)]

\* the mutation of FraFound: an end date of any index resolves the start date
FraFoundAnywhere(starts, ends, i) == \E j \in 1..Len(ends) : ends[j] = starts[i]

\* found_fra after the loop over range(i)
FraFound(starts, ends, i) == \E j \in 1..(i - 1) : ends[j] = starts[i]

\* the mutation of MulMatches: a matching factor is multiplied in twice
RECURSIVE MulMatchesTwice(_, _, _, _, _)
MulMatchesTwice(temp_fct, factors, ends, start, j) ==
    IF j = 0 THEN temp_fct
    ELSE LET prev == MulMatchesTwice(temp_fct, factors, ends, start, j - 1)
         IN IF ends[j] = start THEN NumMul(NumMul(prev, factors[j]), factors[j]) ELSE prev

\* temp_fct after the first j turns of the loop over range(i)
RECURSIVE MulMatches(_, _, _, _, _)
MulMatches(temp_fct, factors, ends, start, j) ==
    IF j = 0 THEN temp_fct
    ELSE LET prev == MulMatches(temp_fct, factors, ends, start, j - 1)
         IN IF ends[j] = start THEN NumMul(prev, factors[j]) ELSE prev

\* the first i turns of the loop that determines the ZC factors
RECURSIVE Bootstrap(_, _, _, _)
Bootstrap(starts, ends, a, i) ==
    IF i = 0 THEN [err |-> "", factors |-> <<>>]
    ELSE LET prev == Bootstrap(starts, ends, a, i - 1)
             res == rate2fct(Rat(a.rates[i]), starts[i], ends[i],
                             a.compounding, a.day_count, a.cal, a.numpy125)
         IN IF prev.err # "" THEN prev
            ELSE IF res.st # "ok" THEN [err |-> "term", factors |-> prev.factors]
            ELSE IF starts[i] = starts[1]
                 THEN [err |-> "", factors |-> Append(prev.factors, res.v)]
            ELSE IF ~FraFound(starts, ends, i)
                 THEN [err |-> "chain", factors |-> prev.factors]
            ELSE [err |-> "",
                  factors |-> Append(prev.factors,
                                     MulMatches(res.v, prev.factors, ends, starts[i], i - 1))]

NoCurve ==
    [st |-> "none", err |-> "", ref_date |-> None, start_dates |-> <<>>,
     end_dates |-> <<>>, interp_method |-> "", compounding |-> "", day_count |-> "",
     factors |-> <<>>, rates |-> <<>>, log_factors |-> <<>>, cal |-> "None",
     ndays |-> <<>>]

\* raise ValueError(...): err tells which one
CurveError(e) == [NoCurve EXCEPT !.st = "ValueError", !.err = e]

\* the attributes set once the checks are done
CurveAttributes(a, starts, factors) ==
    LET ends == a.end_dates
        ref == starts[1]
        n == Len(ends)
        back == [i \in 1..n |-> fct2rate(factors[i], ref, ends[i], a.compounding,
                                         a.day_count, a.cal, a.numpy125)]
    IN IF \E i \in 1..n : back[i].st # "ok" THEN CurveError("term")
       ELSE [st |-> "ok", err |-> "", ref_date |-> ref, start_dates |-> starts,
             end_dates |-> ends, interp_method |-> a.interp_method,
             compounding |-> a.compounding, day_count |-> a.day_count,
             factors |-> factors,
             rates |-> [i \in 1..n |-> back[i].v],
             log_factors |-> IF a.interp_method = "EXP"
                             THEN [i \in 1..n |-> NumLog(factors[i])]
                             ELSE <<>>,
             cal |-> IF a.day_count = "BUS/252" THEN a.cal ELSE "None",
             ndays |-> IF a.day_count = "BUS/252"
                       THEN BusdaysFromRef(ref, ends, a)
                       ELSE [i \in 1..n |-> ends[i] - ref]]

\* Curve(start_dates, end_dates, rates, interp_method=, compounding=,
\*       day_count=, cal=)
CurveNew(a) ==
    LET starts == NormalizedStarts(a)
        ends == a.end_dates
        boot == Bootstrap(starts, ends, a, Len(ends))
    IN IF Len(starts) # Len(ends) \/ Len(ends) # Len(a.rates) THEN CurveError("length")
       ELSE IF ~IsSorted(ends) THEN CurveError("sorted")
       ELSE IF ~AllUnique(ends) THEN CurveError("unique")
       ELSE IF a.day_count = "BUS/252" /\ ~AllUnique(BusdaysFromRef(starts[1], ends, a))
            THEN CurveError("busdays")
       ELSE IF a.interp_method \notin {"LIN", "EXP"} THEN CurveError("interp")
       ELSE IF boot.err # "" THEN CurveError(boot.err)
       ELSE CurveAttributes(a, starts, boot.factors)

-----------------------------------------------------------------------------
(* Curve.interp: Curve_bkp.py, with np.interp as numpy's arr_interp has it  *)

\* the logarithm a rational or a sum of logarithms is, as a map
LogMapOf(x) == IF x.t = "rat" THEN MSingle(EulerE, x.q) ELSE x.m

\* slope * (x - xp[j]) + fp[j] for the share w of the way from xp[j] to
\* xp[j + 1], 0 < w < 1, with arr_interp's second try when that is nan
NumLerp(a, b, w) ==
    CASE a = b -> a
      [] a.t = "nan" \/ b.t = "nan" -> Special("nan")
      [] a.t \in {"inf", "ninf"} /\ b.t \in {"inf", "ninf"} -> Special("nan")
      [] a.t \in {"inf", "ninf"} -> a
      [] b.t \in {"inf", "ninf"} -> b
      [] a.t = "rat" /\ b.t = "rat" ->
            Rat(RAdd(a.q, RMul(RSub(b.q, a.q), w)))
      [] a.t \in {"rat", "log"} /\ b.t \in {"rat", "log"} ->
            FromLog(MTimes(MScale(LogMapOf(a), RSub(R(1), w)), MScale(LogMapOf(b), w)))
      [] OTHER -> Special("undef")

\* the mutation of NpInterp: the first value held on both sides of the range
NpInterpFirstHeld(x, xp, fp) ==
    LET n == Len(xp)
    IN IF x < xp[1] \/ x > xp[n] THEN fp[1]
       ELSE IF x = xp[n] THEN fp[n]
       ELSE LET j == CHOOSE k \in 1..(n - 1) : xp[k] <= x /\ x < xp[k + 1]
            IN IF xp[j] = x THEN fp[j]
               ELSE NumLerp(fp[j], fp[j + 1], Norm(x - xp[j], xp[j + 1] - xp[j]))

\* the mutation of NpInterp: at a point of xp the value of the next point
NpInterpNextKnot(x, xp, fp) ==
    LET n == Len(xp)
    IN IF x < xp[1] THEN fp[1]
       ELSE IF x >= xp[n] THEN fp[n]
       ELSE LET j == CHOOSE k \in 1..(n - 1) : xp[k] <= x /\ x < xp[k + 1]
            IN IF xp[j] = x THEN fp[j + 1]
               ELSE NumLerp(fp[j], fp[j + 1], Norm(x - xp[j], xp[j + 1] - xp[j]))

\* np.interp(x, xp, fp) for one x and increasing xp
NpInterp(x, xp, fp) ==
    LET n == Len(xp)
    IN IF x < xp[1] THEN fp[1]
       ELSE IF x >= xp[n] THEN fp[n]
       ELSE LET j == CHOOSE k \in 1..(n - 1) : xp[k] <= x /\ x < xp[k + 1]
            IN IF xp[j] = x THEN fp[j]
               ELSE NumLerp(fp[j], fp[j + 1], Norm(x - xp[j], xp[j + 1] - xp[j]))

Max(a, b) == IF a >= b THEN a ELSE b
Min(a, b) == IF a <= b THEN a ELSE b

\* Curve.interp(dates) for one date
CurveInterp(c, date, fixed) ==
    LET n == Len(c.end_dates)
        x == IF c.day_count = "BUS/252"
             THEN bdbetween(c.ref_date, date, c.cal, fixed)
             ELSE date - c.ref_date
    IN IF c.interp_method = "EXP"
       THEN fct2rate(NumExp(NpInterp(x, c.ndays, c.log_factors)),
                     c.ref_date, Max(Min(date, c.end_dates[n]), c.end_dates[1]),
                     c.compounding, c.day_count, c.cal, fixed)
       ELSE Returned(NpInterp(x, c.ndays, c.rates))

\* self.__zc_r2f(self.interp(date), date): the factor from the reference date
zc_factor(c, date, fixed) ==
    LET r == CurveInterp(c, date, fixed)
    IN IF r.st # "ok" THEN r
       ELSE rate2fct(r.v, c.ref_date, date, c.compounding, c.day_count, c.cal, fixed)

\* Curve.fra_interp(start_dates, end_dates) for one pair of dates
fra_interp(c, start, end, fixed) ==
    LET start_factors == zc_factor(c, start, fixed)
        end_factors == zc_factor(c, end, fixed)
    IN IF start_factors.st # "ok" THEN start_factors
       ELSE IF end_factors.st # "ok" THEN end_factors
       ELSE fct2rate(NumDiv(end_factors.v, start_factors.v), start, end,
                     c.compounding, c.day_count, c.cal, fixed)

-----------------------------------------------------------------------------
(* The calendar cache: _load_calendar and _get_bdaycalendar, Calendar.py.   *)
(* A lookup is the call of _get_bdaycalendar(cal) that isbd, bdbetween,     *)
(* offsetdate and bday_range all start with.                                *)

\* the codes with a file in Calendars/, and one without
KnownCodes == {"BRL", "USD"}
CacheKeys == KnownCodes \cup {"XXX"}

\* the words a cal string is made of
CodeWords == {"BRL", "USD", "usd", "XXX"}

\* str.upper
Upper(w) ==
    CASE w = "usd" -> "USD" [] w = "du" -> "DU" [] w = "dc" -> "DC"
      [] OTHER -> w

\* a np.busdaycalendar object: nth tells the objects made for one code apart
\* its holidays are the dates given that the weekmask does not already exclude
NoCal == [code |-> "", nth |-> 0, holidays |-> {}]
CalObject(code, nth, hols) ==
    [code |-> code, nth |-> nth, holidays |-> {d \in hols : ~IsWeekend(d)}]

NoCalendars == [c \in CacheKeys |-> NoCal]
NoLoads == [c \in CacheKeys |-> 0]

\* the mutation of InCache: no code is found in the dict
InCacheNever(cache, c) == FALSE

\* cal in _CALENDARS
InCache(cache, c) == cache[c] # NoCal

\* the mutation of HasFile: every code has a file
HasFileAlways(c) == TRUE

\* pkgutil.get_data finds Calendars/<cal>.xml
HasFile(c) == c \in KnownCodes

\* the mutation of CrossHolidays: the holidays of the first calendar alone
CrossHolidaysFirstOnly(cache, cals) == cache[cals[1]].holidays

\* np.concatenate([_CALENDARS[cal].holidays for cal in cals]), as the set
\* np.busdaycalendar keeps
CrossHolidays(cache, cals) == UNION {cache[cals[i]].holidays : i \in 1..Len(cals)}

\* a caller of _get_bdaycalendar: pc its position, cals[i] the code it is at,
\* obj the calendar it has read, res and st what the call returned or raised;
\* reads counts the files the call has read; date and out are the date isbd
\* was called with and what it returned
IdleCaller ==
    [pc |-> "idle", str |-> TRUE, words |-> <<>>, cals |-> <<>>, i |-> 0,
     obj |-> NoCal, reads |-> 0, st |-> "none", res |-> NoCal,
     date |-> None, out |-> FALSE]

CallerDone(me, st, res) == [me EXCEPT !.pc = "done", !.st = st, !.res = res, !.obj = NoCal]

\* the next turn of the loop over cals, or the code after it
NextCode(me) ==
    IF me.i < Len(me.cals)
    THEN [me EXCEPT !.pc = "check", !.i = me.i + 1, !.obj = NoCal]
    ELSE [me EXCEPT !.pc = "ret", !.obj = NoCal]

\* _get_bdaycalendar(cal) up to the loop: the type check, upper and split
StepBegin(str, words) ==
    LET me == [IdleCaller EXCEPT !.str = str, !.words = words,
                                 !.cals = [i \in 1..Len(words) |-> Upper(words[i])]]
    IN IF ~str THEN CallerDone(me, "TypeError", NoCal)
       ELSE NextCode(me)

\* _load_calendar: the test of the dict
StepCheck(cache, me) ==
    IF InCache(cache, me.cals[me.i]) THEN NextCode(me) ELSE [me EXCEPT !.pc = "read"]

\* _load_calendar: the file read and parsed into a calendar object
StepRead(count, me) ==
    LET c == me.cals[me.i]
    IN IF ~HasFile(c) THEN CallerDone(me, "ValueError", NoCal)
       ELSE [me EXCEPT !.pc = "store", !.reads = me.reads + 1,
                       !.obj = CalObject(c, count[c] + 1, Holidays(c))]

\* _load_calendar: _CALENDARS[cal] = ...
StoreIn(cache, me) == [c \in CacheKeys |-> IF c = me.cals[me.i] THEN me.obj ELSE cache[c]]

\* how often each file was read, after the read of me
CountRead(count, me) ==
    [c \in CacheKeys |-> IF c = me.cals[me.i] /\ HasFile(c) THEN count[c] + 1 ELSE count[c]]

\* _get_bdaycalendar after the loop
StepReturn(cache, me) ==
    IF Len(me.cals) = 1 THEN CallerDone(me, "ok", cache[me.cals[1]])
    ELSE IF Len(me.cals) > 1
         THEN CallerDone(me, "ok", CalObject("cross", 0, CrossHolidays(cache, me.cals)))
    ELSE CallerDone(me, "RuntimeError", NoCal)

\* one step of a caller on the dict and the count of reads
CallerStep(w) ==
    CASE w.me.pc = "check" -> [w EXCEPT !.me = StepCheck(w.cache, w.me)]
      [] w.me.pc = "read" -> [w EXCEPT !.me = StepRead(w.count, w.me),
                                       !.count = CountRead(w.count, w.me)]
      [] w.me.pc = "store" -> [w EXCEPT !.me = NextCode(w.me),
                                        !.cache = StoreIn(w.cache, w.me)]
      [] w.me.pc = "ret" -> [w EXCEPT !.me = StepReturn(w.cache, w.me)]
      [] OTHER -> w

\* the whole call, with no other caller at work
RECURSIVE RunCaller(_)
RunCaller(w) == IF w.me.pc = "done" THEN w ELSE RunCaller(CallerStep(w))

\* np.is_busday(dates, busdaycal=bdaycal)
IsBusdayOf(d, bdaycal) == ~IsWeekend(d) /\ d \notin bdaycal.holidays

-----------------------------------------------------------------------------
(* Label.to_date: pypctools/Bucket.py, with the month arithmetic of          *)
(* pd.DateOffset and the rolls of np.busday_offset.                          *)

DaysInMonth(y, m) ==
    CASE m = 2 -> (IF IsLeapYear(y) THEN 29 ELSE 28)
      [] m \in {4, 6, 9, 11} -> 30
      [] OTHER -> 31

\* the days of year y before month m
DaysBeforeMonth(y, m) ==
    <<0, 31, 59, 90, 120, 151, 181, 212, 243, 273, 304, 334>>[m]
        + (IF m > 2 /\ IsLeapYear(y) THEN 1 ELSE 0)

\* the date of year y, month m, day d
FromCivil(y, m, d) == YearStart(y) + DaysBeforeMonth(y, m) + d - 1

MonthOf(d) ==
    LET y == YearOf(d)
        n == d - YearStart(y)
    IN CHOOSE m \in 1..12 :
          /\ DaysBeforeMonth(y, m) <= n
          /\ n < DaysBeforeMonth(y, m) + DaysInMonth(y, m)

DayOf(d) == d - FromCivil(YearOf(d), MonthOf(d), 1) + 1

\* shifted += pd.DateOffset(months=n): the same day n months on, or the last
\* day of that month when it is shorter
AddMonths(d, n) ==
    LET t == MonthOf(d) - 1 + n
        y == YearOf(d) + (t \div 12)
        m == (t % 12) + 1
    IN FromCivil(y, m, Min(DayOf(d), DaysInMonth(y, m)))

\* np.busday_offset(date, 0, roll='forward')
RECURSIVE RollForward(_, _)
RollForward(d, bdaycal) ==
    IF IsBusdayOf(d, bdaycal) THEN d ELSE RollForward(d + 1, bdaycal)

\* np.busday_offset(date, 0, roll='backward')
RECURSIVE RollBackward(_, _)
RollBackward(d, bdaycal) ==
    IF IsBusdayOf(d, bdaycal) THEN d ELSE RollBackward(d - 1, bdaycal)

\* the mutation of RollModifiedFollowing: the month boundary is crossed
RollFollowingAcrossMonths(d, bdaycal) == RollForward(d, bdaycal)

\* np.busday_offset(date, 0, roll='modifiedfollowing')
RollModifiedFollowing(d, bdaycal) ==
    LET f == RollForward(d, bdaycal)
    IN IF MonthOf(f) # MonthOf(d) \/ YearOf(f) # YearOf(d)
       THEN RollBackward(d, bdaycal)
       ELSE f

\* offsetdate(date, 0, roll=roll, cal=cal): the lookup of the calendar, then
\* the roll; w is the dict and the count of reads it starts from
offsetdate(w, d, roll, cal) ==
    LET v == RunCaller([cache |-> w.cache, count |-> w.count,
                        me |-> StepBegin(cal.str, cal.words)])
        out == [st |-> v.me.st, cache |-> v.cache, count |-> v.count, date |-> d]
    IN IF v.me.st # "ok" THEN out
       ELSE IF roll = "modifiedfollowing"
            THEN [out EXCEPT !.date = RollModifiedFollowing(d, v.me.res)]
       ELSE [out EXCEPT !.date = RollForward(d, v.me.res)]

\* Label.to_date(ref_date, date_adjust=adjust, cal=cal) on the letter map lm;
\* adjust and cal are [str, ...] records, str telling a str from another type
to_date(w, lm, ref_date, adjust, cal) ==
    LET start == [st |-> "ok", cache |-> w.cache, count |-> w.count, date |-> ref_date]
        date_adjust == Upper(adjust.word)
        nm == lm["M"] + 12 * lm["Y"]
        nd == lm["D"] + 7 * lm["W"]
        jumped == [start EXCEPT !.date = AddMonths(ref_date, nm)]
        months == IF nm > 0
                  THEN IF date_adjust = "DU"
                       THEN offsetdate(jumped, jumped.date, "modifiedfollowing", cal)
                       ELSE jumped
                  ELSE start
        moved == [months EXCEPT !.date = months.date + nd]
        days == IF nd > 0
                THEN IF date_adjust = "DU"
                     THEN offsetdate(moved, moved.date, "forward", cal)
                     ELSE moved
                ELSE months
    IN IF ~adjust.str THEN [start EXCEPT !.st = "TypeError"]
       ELSE IF date_adjust \notin {"DU", "DC"} THEN [start EXCEPT !.st = "ValueError"]
       ELSE IF months.st # "ok" THEN months
       ELSE days

\* Bucket.to_dates(ref_date, date_adjust=adjust, cal=cal): to_date of each
\* label of the index in turn, from entry i on; the first failure ends it
RECURSIVE to_dates(_, _, _, _, _, _, _)

\* the loop from entry i on, once to_date has returned or raised `one` for
\* the entry before it
ToDatesFrom(self, i, one, ref_date, adjust, cal, done) ==
    IF one.st # "ok"
    THEN [st |-> one.st, cache |-> one.cache, count |-> one.count, dates |-> <<>>]
    ELSE to_dates(self, i, one, ref_date, adjust, cal, Append(done, one.date))

to_dates(self, i, w, ref_date, adjust, cal, done) ==
    IF i > Len(self.entries)
    THEN [st |-> "ok", cache |-> w.cache, count |-> w.count, dates |-> done]
    ELSE ToDatesFrom(self, i + 1,
                     to_date(w, LabelNew(StrArg(self.entries[i].label)).letter_map,
                             ref_date, adjust, cal),
                     ref_date, adjust, cal, done)

-----------------------------------------------------------------------------
(* CSVDataAppender: DEV_BSB/utils/CSVDataAppender.py.  The frame self.df is *)
(* its date index and, position by position, its rows; a row is the value   *)
(* func returned for it.  The dates are those of Dates, at midnight.        *)

\* the types a date is handed to append_row as: a str as "%Y-%m-%d", a
\* pd.Timestamp (or datetime, or np.datetime64), a datetime.date
DateKinds == {"str", "Timestamp", "date"}

\* what func returns for a date, and what the rows of the file hold
FuncValues == {1, 2}
FileValue == 0

NoAppender ==
    [st |-> "none", index |-> <<>>, rows |-> <<>>, csv_modified |-> FALSE, file |-> <<>>,
     calls |-> 0, invoked |-> 0, last |-> [kind |-> "", day |-> None]]

\* pd.Timestamp(date)
Timestamp(date) == date.day

\* date in self.df.index: DatetimeIndex.__contains__ is get_loc without its
\* KeyError; get_loc takes a datetime, np.datetime64 or Timestamp as it is,
\* parses a str, and raises KeyError for any other type, datetime.date too
InIndex(index, date) ==
    /\ date.kind \in {"str", "Timestamp"}
    /\ \E i \in 1..Len(index) : index[i] = date.day

\* CSVDataAppender(filepath) on a file of the given dates
AppenderNew(days) ==
    [NoAppender EXCEPT !.st = "open", !.index = days,
                       !.rows = [i \in 1..Len(days) |-> FileValue],
                       !.file = [i \in 1..Len(days) |-> <<days[i], FileValue>>]]

\* self.df.loc[pd_date] = row_values: the row of that label is set, and a
\* label the index does not hold is added at the end with its row
LocSet(self, pd_date, row_values) ==
    IF \E i \in 1..Len(self.index) : self.index[i] = pd_date
    THEN [self EXCEPT !.rows = [i \in 1..Len(self.rows) |->
                                  IF self.index[i] = pd_date THEN row_values
                                  ELSE self.rows[i]]]
    ELSE [self EXCEPT !.index = Append(self.index, pd_date),
                      !.rows = Append(self.rows, row_values)]

\* append_row(date, func), where func(date) would return row_values
append_row(self, date, row_values) ==
    LET pd_date == Timestamp(date)
        called == [self EXCEPT !.calls = @ + 1, !.last = date]
    IN IF InIndex(self.index, date) THEN called
       ELSE [LocSet(called, pd_date, row_values) EXCEPT !.invoked = @ + 1,
                                                        !.csv_modified = TRUE]

\* df.sort_index(ascending=True), as the rows <<date, row>> written out
RECURSIVE SortedRows(_, _, _)
SortedRows(index, rows, left) ==
    IF left = {} THEN <<>>
    ELSE LET i == CHOOSE k \in left : \A j \in left :
                     index[k] < index[j] \/ (index[k] = index[j] /\ k <= j)
         IN <<<<index[i], rows[i]>>>> \o SortedRows(index, rows, left \ {i})

\* commit()
commit(self) ==
    IF self.csv_modified
    THEN [self EXCEPT !.file = SortedRows(self.index, self.rows, 1..Len(self.index)),
                      !.csv_modified = FALSE]
    ELSE self

-----------------------------------------------------------------------------
(* Idle values of the other subsystems (filled in below) *)

NoRateArgs == [st |-> "none"]
NoRateRes == [st |-> "none", fct |-> Special("nan"), rate |-> Special("nan"), term |-> NaN]
NoCurveCfg == [st |-> "none"]
NoQuery == [st |-> "none", op |-> "", dates |-> None, res |-> Special("nan")]
NoCallers == <<IdleCaller>>
NoCompared ==
    [st |-> "none", self |-> LabelError("none"), other |-> NotALabel,
     lt |-> Gives(FALSE), le |-> Gives(FALSE), eq |-> Gives(FALSE),
     gt |-> Gives(FALSE), ge |-> Gives(FALSE), hash_self |-> <<>>, hash_other |-> <<>>]
NoToDate ==
    [st |-> "none", label |-> <<>>, letter_map |-> NoLetterMap, ref_date |-> None,
     date_adjust |-> [str |-> TRUE, word |-> ""], cal |-> [str |-> TRUE, words |-> <<>>],
     res |-> None]

-----------------------------------------------------------------------------
(* SpecLabel: Label(arg) on every argument *)

InitLabel ==
    /\ labelArg \in LabelArgs
    /\ labelRes = NoLabelRes
    /\ bucketArgs = NoBucketArgs /\ bucket = NoBucket /\ distRes = NoDist
    /\ rateArgs = NoRateArgs /\ rateRes = NoRateRes
    /\ curveCfg = NoCurveCfg /\ curve = NoCurve
    /\ query = NoQuery /\ calendars = NoCalendars /\ loads = NoLoads
    /\ callers = NoCallers /\ toDate = NoToDate /\ compared = NoCompared /\ appender = NoAppender

LabelInit ==
    /\ labelRes.st = "none"
    /\ labelRes' = LabelNew(labelArg)
    /\ UNCHANGED <<labelArg, bucketArgs, bucket, distRes, rateArgs, rateRes, curveCfg, curve,
                 query, calendars, loads, callers, toDate, compared, appender>>

NextLabel == LabelInit

SpecLabel == InitLabel /\ [][NextLabel]_vars

-----------------------------------------------------------------------------
(* SpecBucket: a Bucket is built, then distributed onto target labels *)

BucketInputs ==
    {[labels |-> [i \in 1..Len(ls) |-> StrArg(ls[i])], given |-> TRUE, values |-> vs] :
        <<ls, vs>> \in {p \in SeqsUpTo(SrcPool, 0, MaxSrc) \X SeqsUpTo(ValuePool, 0, MaxSrc) :
                          Len(p[1]) = Len(p[2])}}
    \cup {[labels |-> [i \in 1..Len(ls) |-> StrArg(ls[i])], given |-> FALSE, values |-> <<>>] :
            ls \in SeqsUpTo(SrcPool, 0, MaxSrc)}
    \cup {[labels |-> [i \in 1..Len(ls) |-> StrArg(ls[i])], given |-> TRUE,
           values |-> [i \in 1..Len(ls) |-> PyNone]] :
            ls \in SeqsUpTo(SrcPool, 1, MaxSrc)}

TargetInputs ==
    {[i \in 1..Len(ls) |-> StrArg(ls[i])] : ls \in SeqsUpTo(TgtPool, 0, MaxTgt)}

\* targets given as the Label objects of the Bucket's own index
OwnLabels(self) ==
    {[i \in 1..Len(js) |->
        LabelObjArg(LabelNew(StrArg(self.entries[js[i]].label)), js[i])] :
     js \in SeqsUpTo(1..Len(self.entries), 1, MaxTgt)}

\* the arguments of to_dates: a str or another type for date_adjust, one code
ToDatesAdjusts == {[str |-> TRUE, word |-> "DU"], [str |-> TRUE, word |-> "DC"],
                   [str |-> FALSE, word |-> ""]}
ToDatesCals == {[str |-> TRUE, words |-> <<"BRL">>], [str |-> TRUE, words |-> <<"XXX">>]}

InitBucket ==
    /\ bucketArgs = NoBucketArgs /\ bucket = NoBucket /\ distRes = NoDist
    /\ labelArg = NoLabelArg /\ labelRes = NoLabelRes
    /\ rateArgs = NoRateArgs /\ rateRes = NoRateRes
    /\ curveCfg = NoCurveCfg /\ curve = NoCurve
    /\ query = NoQuery /\ calendars = NoCalendars /\ loads = NoLoads
    /\ callers = NoCallers /\ toDate = NoToDate /\ compared = NoCompared /\ appender = NoAppender

BucketInit ==
    /\ bucket.st = "none"
    /\ \E inp \in BucketInputs, collide \in BOOLEAN :
          /\ bucketArgs' = inp
          /\ bucket' \in BucketNew(inp.labels, inp.given, inp.values, collide)
    /\ UNCHANGED <<labelArg, labelRes, distRes, rateArgs, rateRes, curveCfg, curve,
                 query, calendars, loads, callers, toDate, compared, appender>>

Distribute ==
    /\ bucket.st = "ok"
    /\ distRes.st = "none"
    /\ toDate.st = "none"
    /\ \E verts \in TargetInputs \cup OwnLabels(bucket), return_bucket \in BOOLEAN,
          collide \in BOOLEAN :
          distRes' \in DistributeValues(bucket, verts, return_bucket, collide)
    /\ UNCHANGED <<labelArg, labelRes, bucketArgs, bucket, rateArgs, rateRes, curveCfg, curve,
                 query, calendars, loads, callers, toDate, compared, appender>>

ToDates ==
    /\ bucket.st = "ok"
    /\ distRes.st = "none"
    /\ toDate.st = "none"
    /\ \E ref_date \in Dates, adjust \in ToDatesAdjusts, cal \in ToDatesCals :
          LET out == to_dates(bucket, 1, [cache |-> calendars, count |-> loads],
                              ref_date, adjust, cal, <<>>)
          IN /\ toDate' = [NoToDate EXCEPT !.st = out.st, !.ref_date = ref_date,
                                            !.date_adjust = adjust, !.cal = cal,
                                            !.res = out.dates]
             /\ calendars' = out.cache
             /\ loads' = out.count
    /\ UNCHANGED <<labelArg, labelRes, bucketArgs, bucket, distRes, rateArgs, rateRes, curveCfg,
                 curve, query, callers, compared, appender>>

NextBucket == BucketInit \/ Distribute \/ ToDates

SpecBucket == InitBucket /\ [][NextBucket]_vars

-----------------------------------------------------------------------------
(* The specification of the conversions: rate2fct on a rate, then fct2rate  *)
(* on the factor it returned, over the same dates and conventions.          *)

RatePool == {Norm(1, 10), R(0), R(-1), R(-2)}

\* the calendar handed over: only BUS/252 reads it
CalFor(day_count) == IF day_count = "BUS/252" THEN "BRL" ELSE "None"

\* the arguments of one conversion; numpy125: whether the numpy of the build
\* counts reversed dates as numpy 1.25 does
RateArgs(r, s, e, c, dc, f) ==
    [st |-> "given", rates |-> r, start_dates |-> s, end_dates |-> e,
     compounding |-> c, day_count |-> dc, cal |-> CalFor(dc), numpy125 |-> f]

TermOf(a) == calc_term(a.start_dates, a.end_dates, a.day_count, a.cal, a.numpy125)

InitRate ==
    /\ rateArgs = NoRateArgs /\ rateRes = NoRateRes
    /\ labelArg = NoLabelArg /\ labelRes = NoLabelRes
    /\ bucketArgs = NoBucketArgs /\ bucket = NoBucket /\ distRes = NoDist
    /\ curveCfg = NoCurveCfg /\ curve = NoCurve
    /\ query = NoQuery /\ calendars = NoCalendars /\ loads = NoLoads
    /\ callers = NoCallers /\ toDate = NoToDate /\ compared = NoCompared /\ appender = NoAppender

Rate2Fct ==
    /\ rateRes.st = "none"
    /\ \E r \in RatePool, s \in Dates, e \in Dates, c \in Compoundings,
          dc \in DayCounts, f \in BOOLEAN :
          /\ f => dc = "BUS/252"
          /\ rateArgs' = RateArgs(r, s, e, c, dc, f)
          /\ LET a == RateArgs(r, s, e, c, dc, f)
                 res == rate2fct(Rat(a.rates), a.start_dates, a.end_dates,
                                 a.compounding, a.day_count, a.cal, a.numpy125)
             IN rateRes' = IF res.st = "ok"
                           THEN [st |-> "fct", fct |-> res.v, rate |-> Special("nan"), term |-> NaN]
                           ELSE [st |-> res.st, fct |-> res.v, rate |-> res.v, term |-> NaN]
    /\ UNCHANGED <<labelArg, labelRes, bucketArgs, bucket, distRes, curveCfg, curve,
                 query, calendars, loads, callers, toDate, compared, appender>>

Fct2Rate ==
    /\ rateRes.st = "fct"
    /\ LET a == rateArgs
           res == fct2rate(rateRes.fct, a.start_dates, a.end_dates,
                           a.compounding, a.day_count, a.cal, a.numpy125)
       IN rateRes' = IF res.st = "ok"
                     THEN [st |-> "rate", fct |-> rateRes.fct, rate |-> res.v, term |-> NaN]
                     ELSE [st |-> res.st, fct |-> rateRes.fct, rate |-> res.v, term |-> NaN]
    /\ UNCHANGED <<labelArg, labelRes, bucketArgs, bucket, distRes, rateArgs, curveCfg, curve,
                 query, calendars, loads, callers, toDate, compared, appender>>

\* the factors handed to fct2rate on its own
FactorPool == {Rat(R(1)), Rat(Norm(11, 10))}

\* fct2rate on a factor of the caller's
Fct2RateGiven ==
    /\ rateRes.st = "none"
    /\ \E x \in FactorPool, s \in Dates, e \in Dates, c \in Compoundings,
          dc \in DayCounts, f \in BOOLEAN :
          /\ f => dc = "BUS/252"
          /\ rateArgs' = RateArgs(NaN, s, e, c, dc, f)
          /\ LET res == fct2rate(x, s, e, c, dc, CalFor(dc), f)
             IN rateRes' = [st |-> IF res.st = "ok" THEN "given" ELSE res.st,
                            fct |-> x, rate |-> res.v, term |-> NaN]
    /\ UNCHANGED <<labelArg, labelRes, bucketArgs, bucket, distRes, curveCfg, curve,
                 query, calendars, loads, callers, toDate, compared, appender>>

\* the dates _calc_term is called on by itself: those of Dates and dates
\* around the next turns of the year (2017-01-02, 2017-12-31, 2018-01-01,
\* 2018-01-02, 2019-01-01)
TermDates == Dates \cup {4, 367, 368, 369, 733}

\* _calc_term(start, end, day_count=dc, cal=cal)
CalcTerm ==
    /\ rateRes.st = "none"
    /\ \E s \in TermDates, e \in TermDates, dc \in DayCounts, f \in BOOLEAN :
          /\ f => dc = "BUS/252"
          /\ rateArgs' = RateArgs(NaN, s, e, "", dc, f)
          /\ rateRes' = [NoRateRes EXCEPT !.st = "term",
                                          !.term = calc_term(s, e, dc, CalFor(dc), f)]
    /\ UNCHANGED <<labelArg, labelRes, bucketArgs, bucket, distRes, curveCfg, curve,
                 query, calendars, loads, callers, toDate, compared, appender>>

NextRate == Rate2Fct \/ Fct2Rate \/ Fct2RateGiven \/ CalcTerm

SpecRate == InitRate /\ [][NextRate]_vars

-----------------------------------------------------------------------------
(* The specification of Curve: one construction from arrays of up to MaxSeg *)
(* segments, of equal lengths, with the names of the keywords in capitals.  *)

\* the rates of the segments
CurveRates(n) == [i \in 1..n |-> IF i % 2 = 1 THEN R(1) ELSE R(2)]

InterpMethods == {"LIN", "EXP", "CUBIC"}

\* the arguments of one construction
CurveArgs(s, scalar, e, im, c, dc, f) ==
    [st |-> "given", start_dates |-> s, start_scalar |-> scalar, end_dates |-> e,
     rates |-> CurveRates(Len(e)), interp_method |-> im, compounding |-> c,
     day_count |-> dc, cal |-> CalFor(dc), numpy125 |-> f]

InitCurve ==
    /\ curveCfg = NoCurveCfg /\ curve = NoCurve
    /\ labelArg = NoLabelArg /\ labelRes = NoLabelRes
    /\ bucketArgs = NoBucketArgs /\ bucket = NoBucket /\ distRes = NoDist
    /\ rateArgs = NoRateArgs /\ rateRes = NoRateRes
    /\ query = NoQuery /\ calendars = NoCalendars /\ loads = NoLoads
    /\ callers = NoCallers /\ toDate = NoToDate /\ compared = NoCompared /\ appender = NoAppender

CurveInit ==
    /\ curve.st = "none"
    /\ \E n \in 1..MaxSeg, scalar \in BOOLEAN, im \in InterpMethods,
          c \in Compoundings, dc \in DayCounts, f \in BOOLEAN :
          /\ f => dc = "BUS/252"
          /\ \E s \in [1..(IF scalar THEN 1 ELSE n) -> Dates], e \in [1..n -> Dates] :
                LET a == CurveArgs(s, scalar, e, im, c, dc, f)
                IN /\ curveCfg' = a
                   /\ curve' = CurveNew(a)
    /\ UNCHANGED <<labelArg, labelRes, bucketArgs, bucket, distRes, rateArgs, rateRes,
                   query, calendars, loads, callers, toDate, compared, appender>>

\* the mutation of Interp: the hack that forces a date into the range of an
\* EXP curve moves the curve's last end date to the date instead
InterpForcingRange ==
    /\ curve.st = "ok"
    /\ \E d \in Dates :
          LET n == Len(curve.end_dates)
              res == CurveInterp(curve, d, curveCfg.numpy125)
          IN /\ query' = [st |-> res.st, op |-> "interp", dates |-> d, res |-> res.v]
             /\ curve' = IF curve.interp_method = "EXP" /\ d > curve.end_dates[n]
                         THEN [curve EXCEPT !.end_dates[n] = d]
                         ELSE curve
    /\ UNCHANGED <<labelArg, labelRes, bucketArgs, bucket, distRes, rateArgs, rateRes,
                   curveCfg, calendars, loads, callers, toDate, compared, appender>>

\* curve.interp(date) on the Curve built
Interp ==
    /\ curve.st = "ok"
    /\ \E d \in Dates :
          LET res == CurveInterp(curve, d, curveCfg.numpy125)
          IN query' = [st |-> res.st, op |-> "interp", dates |-> d, res |-> res.v]
    /\ UNCHANGED <<labelArg, labelRes, bucketArgs, bucket, distRes, rateArgs, rateRes,
                   curveCfg, curve, calendars, loads, callers, toDate, compared, appender>>

\* the dates of a forward rate: a day and the next one, in either order
FraPairs == {p \in Dates \X Dates : p[2] - p[1] \in {1, -1}}

\* curve.fra_interp(start, end) on the Curve built
FraInterp ==
    /\ curve.st = "ok"
    /\ \E p \in FraPairs :
          LET res == fra_interp(curve, p[1], p[2], curveCfg.numpy125)
          IN query' = [st |-> res.st, op |-> "fra_interp", dates |-> p, res |-> res.v]
    /\ UNCHANGED <<labelArg, labelRes, bucketArgs, bucket, distRes, rateArgs, rateRes,
                   curveCfg, curve, calendars, loads, callers, toDate, compared, appender>>

NextCurve == CurveInit \/ Interp \/ FraInterp

SpecCurve == InitCurve /\ [][NextCurve]_vars

-----------------------------------------------------------------------------
(* The specifications of the calendar cache.  SpecCalendar: lookups one     *)
(* after the other, each run to its end.  SpecThreads: MaxCallers callers   *)
(* whose lookups interleave at the steps of _load_calendar, which takes no  *)
(* lock.                                                                    *)

InitCalendar ==
    /\ calendars = NoCalendars /\ loads = NoLoads /\ callers = NoCallers
    /\ labelArg = NoLabelArg /\ labelRes = NoLabelRes
    /\ bucketArgs = NoBucketArgs /\ bucket = NoBucket /\ distRes = NoDist
    /\ rateArgs = NoRateArgs /\ rateRes = NoRateRes
    /\ curveCfg = NoCurveCfg /\ curve = NoCurve
    /\ query = NoQuery /\ toDate = NoToDate /\ compared = NoCompared /\ appender = NoAppender

\* _get_bdaycalendar(cal), for a cal of up to MaxCodes words or one that is
\* no str
Lookup ==
    \E str \in BOOLEAN, n \in 0..MaxCodes :
        /\ ~str => n = 0
        /\ \E words \in [1..n -> CodeWords] :
              LET w == RunCaller([cache |-> calendars, count |-> loads,
                                  me |-> StepBegin(str, words)])
              IN /\ calendars' = w.cache
                 /\ loads' = w.count
                 /\ callers' = <<w.me>>
        /\ UNCHANGED <<labelArg, labelRes, bucketArgs, bucket, distRes, rateArgs, rateRes,
                       curveCfg, curve, query, toDate, compared, appender>>

\* isbd(date, cal=cal)
IsBd ==
    \E str \in BOOLEAN, n \in 0..MaxCodes, d \in Dates :
        /\ ~str => n = 0
        /\ \E words \in [1..n -> CodeWords] :
              LET w == RunCaller([cache |-> calendars, count |-> loads,
                                  me |-> StepBegin(str, words)])
              IN /\ calendars' = w.cache
                 /\ loads' = w.count
                 /\ callers' = <<[w.me EXCEPT !.date = d,
                                              !.out = w.me.st = "ok" /\ IsBusdayOf(d, w.me.res)]>>
        /\ UNCHANGED <<labelArg, labelRes, bucketArgs, bucket, distRes, rateArgs, rateRes,
                       curveCfg, curve, query, toDate, compared, appender>>

NextCalendar == Lookup \/ IsBd

SpecCalendar == InitCalendar /\ [][NextCalendar]_vars

InitThreads ==
    /\ calendars = NoCalendars /\ loads = NoLoads
    /\ callers = [t \in 1..MaxCallers |-> IdleCaller]
    /\ labelArg = NoLabelArg /\ labelRes = NoLabelRes
    /\ bucketArgs = NoBucketArgs /\ bucket = NoBucket /\ distRes = NoDist
    /\ rateArgs = NoRateArgs /\ rateRes = NoRateRes
    /\ curveCfg = NoCurveCfg /\ curve = NoCurve
    /\ query = NoQuery /\ toDate = NoToDate /\ compared = NoCompared /\ appender = NoAppender

IdleOthers == UNCHANGED <<labelArg, labelRes, bucketArgs, bucket, distRes, rateArgs,
                          rateRes, curveCfg, curve, query, toDate, compared, appender>>

\* the callers once caller t has come to me
WithCaller(t, me) == [u \in DOMAIN callers |-> IF u = t THEN me ELSE callers[u]]

\* the state a step of caller t starts from
WorldOf(t) == [cache |-> calendars, count |-> loads, me |-> callers[t]]

\* caller t calls _get_bdaycalendar(cal)
Begin(t) ==
    /\ callers[t].pc \in {"idle", "done"}
    /\ \E str \in BOOLEAN, n \in 0..MaxCodes :
          /\ ~str => n = 0
          /\ \E words \in [1..n -> CodeWords] :
                callers' = WithCaller(t, StepBegin(str, words))
    /\ UNCHANGED <<calendars, loads>>
    /\ IdleOthers

\* caller t tests whether its code is in _CALENDARS
Check(t) ==
    /\ callers[t].pc = "check"
    /\ callers' = WithCaller(t, CallerStep(WorldOf(t)).me)
    /\ UNCHANGED <<calendars, loads>>
    /\ IdleOthers

\* caller t reads the file of its code
Read(t) ==
    /\ callers[t].pc = "read"
    /\ callers' = WithCaller(t, CallerStep(WorldOf(t)).me)
    /\ loads' = CallerStep(WorldOf(t)).count
    /\ UNCHANGED calendars
    /\ IdleOthers

\* caller t stores the calendar it has read
Store(t) ==
    /\ callers[t].pc = "store"
    /\ callers' = WithCaller(t, CallerStep(WorldOf(t)).me)
    /\ calendars' = CallerStep(WorldOf(t)).cache
    /\ UNCHANGED loads
    /\ IdleOthers

\* caller t takes its calendar from _CALENDARS and returns
Return(t) ==
    /\ callers[t].pc = "ret"
    /\ callers' = WithCaller(t, CallerStep(WorldOf(t)).me)
    /\ UNCHANGED <<calendars, loads>>
    /\ IdleOthers

NextThreads ==
    \E t \in 1..MaxCallers : Begin(t) \/ Check(t) \/ Read(t) \/ Store(t) \/ Return(t)

SpecThreads == InitThreads /\ [][NextThreads]_vars

-----------------------------------------------------------------------------
(* The specification of Label.to_date: the first call of a process, in      *)
(* which a valid label shifts a reference date of the model under a calendar *)
(* of at most one code; the rolls go through offsetdate and so through the   *)
(* calendar cache, which starts empty.                                       *)

\* the texts of the labels shifted: a year, months, a week and days, each
\* present or not
ToDatePieces ==
    << {<<>>, <<"1", "Y">>},
       {<<>>, <<"0", "M">>, <<"1", "M">>, <<"4", "M">>},
       {<<>>, <<"1", "W">>},
       {<<>>, <<"0", "D">>, <<"2", "D">>} >>

AdjustWords == {"DU", "DC", "du", "AB"}

InitToDate ==
    /\ toDate = NoToDate /\ compared = NoCompared /\ appender = NoAppender
    /\ calendars = NoCalendars /\ loads = NoLoads /\ callers = NoCallers
    /\ labelArg = NoLabelArg /\ labelRes = NoLabelRes
    /\ bucketArgs = NoBucketArgs /\ bucket = NoBucket /\ distRes = NoDist
    /\ rateArgs = NoRateArgs /\ rateRes = NoRateRes
    /\ curveCfg = NoCurveCfg /\ curve = NoCurve
    /\ query = NoQuery

\* Label(text).to_date(ref_date, date_adjust=adjust, cal=cal)
ToDate ==
    /\ toDate.st = "none"
    /\ \E y \in ToDatePieces[1], m \in ToDatePieces[2], k \in ToDatePieces[3],
          d \in ToDatePieces[4], ref_date \in Dates,
          astr \in BOOLEAN, aword \in AdjustWords, cstr \in BOOLEAN, n \in 0..1 :
           /\ ~astr => aword = "DU"
           /\ ~cstr => n = 0
           /\ LabelOfStr(y \o m \o k \o d).st = "ok"
           /\ \E words \in [1..n -> CodeWords] :
                 LET label == LabelOfStr(y \o m \o k \o d)
                     adjust == [str |-> astr, word |-> aword]
                     cal == [str |-> cstr, words |-> words]
                     r == to_date([cache |-> calendars, count |-> loads],
                                  label.letter_map, ref_date, adjust, cal)
                 IN /\ toDate' = [st |-> r.st, label |-> label.label,
                                  letter_map |-> label.letter_map, ref_date |-> ref_date,
                                  date_adjust |-> adjust, cal |-> cal,
                                  res |-> IF r.st = "ok" THEN r.date ELSE None]
                    /\ calendars' = r.cache
                    /\ loads' = r.count
           /\ UNCHANGED <<labelArg, labelRes, bucketArgs, bucket, distRes, rateArgs, rateRes,
                          curveCfg, curve, query, callers, compared, appender>>

NextToDate == ToDate

SpecToDate == InitToDate /\ [][NextToDate]_vars

-----------------------------------------------------------------------------
(* The specification of the comparisons: a Label is compared once, with      *)
(* each of the five operators, with another Label or with an object of       *)
(* another type.                                                             *)

InitCompare ==
    /\ compared = NoCompared /\ appender = NoAppender
    /\ toDate = NoToDate
    /\ calendars = NoCalendars /\ loads = NoLoads /\ callers = NoCallers
    /\ labelArg = NoLabelArg /\ labelRes = NoLabelRes
    /\ bucketArgs = NoBucketArgs /\ bucket = NoBucket /\ distRes = NoDist
    /\ rateArgs = NoRateArgs /\ rateRes = NoRateRes
    /\ curveCfg = NoCurveCfg /\ curve = NoCurve
    /\ query = NoQuery

\* self < other, self <= other, self == other, self > other, self >= other,
\* hash(self) and hash(other)
Compare ==
    /\ compared.st = "none"
    /\ \E self \in ValidLabels, other \in {OtherLabel(b) : b \in ValidLabels} \cup {NotALabel},
          collide \in BOOLEAN :
          compared' = [st |-> "done", self |-> self, other |-> other,
                       lt |-> label_lt(self, other), le |-> label_le(self, other),
                       eq |-> label_eq(self, other), gt |-> label_gt(self, other),
                       ge |-> label_ge(self, other),
                       hash_self |-> label_hash(self, collide),
                       hash_other |-> IF other.isLabel THEN label_hash(other.obj, collide)
                                      ELSE <<>>]
    /\ UNCHANGED <<labelArg, labelRes, bucketArgs, bucket, distRes, rateArgs, rateRes,
                   curveCfg, curve, query, calendars, loads, callers, toDate, appender>>

NextCompare == Compare

SpecCompare == InitCompare /\ [][NextCompare]_vars

-----------------------------------------------------------------------------
(* SpecAppender: a CSVDataAppender is opened on a file of distinct dates,   *)
(* then takes append_row and commit calls in any order.                    *)

InitAppender ==
    /\ labelArg = NoLabelArg /\ labelRes = NoLabelRes
    /\ bucketArgs = NoBucketArgs /\ bucket = NoBucket /\ distRes = NoDist
    /\ rateArgs = NoRateArgs /\ rateRes = NoRateRes
    /\ curveCfg = NoCurveCfg /\ curve = NoCurve
    /\ query = NoQuery /\ calendars = NoCalendars /\ loads = NoLoads
    /\ callers = NoCallers /\ toDate = NoToDate /\ compared = NoCompared /\ appender = NoAppender

FileDates == {days \in SeqsUpTo(Dates, 1, MaxRows) : AllUnique(days)}

Open ==
    /\ appender.st = "none"
    /\ \E days \in FileDates : appender' = AppenderNew(days)
    /\ UNCHANGED <<labelArg, labelRes, bucketArgs, bucket, distRes, rateArgs, rateRes, curveCfg,
                   curve, query, calendars, loads, callers, toDate, compared>>

AppendRow ==
    /\ appender.st = "open"
    /\ appender.calls < MaxCalls
    /\ \E kind \in DateKinds, day \in Dates, row_values \in FuncValues :
          appender' = append_row(appender, [kind |-> kind, day |-> day], row_values)
    /\ UNCHANGED <<labelArg, labelRes, bucketArgs, bucket, distRes, rateArgs, rateRes, curveCfg,
                   curve, query, calendars, loads, callers, toDate, compared>>

Commit ==
    /\ appender.st = "open"
    /\ appender' = commit(appender)
    /\ UNCHANGED <<labelArg, labelRes, bucketArgs, bucket, distRes, rateArgs, rateRes, curveCfg,
                   curve, query, calendars, loads, callers, toDate, compared>>

NextAppender == Open \/ AppendRow \/ Commit

SpecAppender == InitAppender /\ [][NextAppender]_vars

-----------------------------------------------------------------------------
(* Claims about Label *)

\* The texts the claim C7 describes: one to four tokens, each a run of digits
\* followed by one of Y, M, W, D, nothing else, no unit twice, units in
\* Y, M, W, D order.
UnitPositions(s) == {i \in 1..Len(s) : s[i] \in Units}

WellFormedLabel(s) ==
    /\ Len(s) >= 1
    /\ \A i \in 1..Len(s) : s[i] \in Digits \cup Units
    /\ s[Len(s)] \in Units
    /\ \A i \in UnitPositions(s) : i > 1 /\ s[i - 1] \in Digits
    /\ Cardinality(UnitPositions(s)) \in 1..4
    /\ \A i, j \in UnitPositions(s) : i < j => LetterOrder(s[i]) < LetterOrder(s[j])

LabelOnStrings ==
    (labelRes.st # "none" /\ labelArg.kind = "str") =>
        /\ WellFormedLabel(labelArg.text) => labelRes.st = "ok" /\ labelRes.label = labelArg.text
        /\ ~WellFormedLabel(labelArg.text) => labelRes.st = "ValueError"

\* C7 as stated: Label(text) succeeds exactly on the well-formed texts, every
\* other string raises ValueError and every non-string input raises TypeError.
C7_AsStated ==
    /\ LabelOnStrings
    /\ (labelRes.st # "none" /\ labelArg.kind # "str") => labelRes.st = "TypeError"

\* C7 amended: Label(text) succeeds exactly on the well-formed texts and every
\* other string raises ValueError; a Label argument is handed back as it is,
\* and every argument that is neither a str nor a Label raises TypeError.
C7_LabelAccepts ==
    /\ LabelOnStrings
    /\ (labelRes.st # "none" /\ labelArg.kind = "Label") => labelRes = labelArg.obj
    /\ (labelRes.st # "none" /\ labelArg.kind = "other") => labelRes.st = "TypeError"

\* a text of four tokens with a zero count was accepted
C7_Witness ==
    /\ labelArg.kind = "str"
    /\ labelRes.st = "ok"
    /\ Cardinality(UnitPositions(labelArg.text)) = 4
    /\ labelRes.letter_map["D"] = 0

-----------------------------------------------------------------------------
(* Claims about Bucket *)

SourceValues == EntryValues(bucket)
Distributed == distRes.st # "none" /\ distRes.to_ndays # <<>>
TargetKeys == {distRes.to_ndays[t] : t \in 1..Len(distRes.to_ndays)}

\* C1: for a Bucket without NaN and a non-empty sequence of targets, every
\* source value is allocated in full (what one turn of the loop adds to the
\* targets sums to the source value), so the distributed values sum to the
\* sum of the source values, in the list the loop leaves and in the array or
\* Bucket returned.
C1_SumConserved ==
    Distributed =>
        /\ \A i \in 1..Len(distRes.allocs) :
              RSum(distRes.allocs[i]) = bucket.entries[i].value
        /\ Len(distRes.allocs) = Len(bucket.entries) =>
              RSum(distRes.distributed) = RSum(SourceValues)
        /\ (distRes.st = "ok" /\ distRes.bkt.st = "none") =>
              RSum(distRes.array) = RSum(SourceValues)
        /\ (distRes.st = "ok" /\ distRes.bkt.st = "ok") =>
              RSum(EntryValues(distRes.bkt)) = RSum(SourceValues)

\* two source values were distributed and one of them was split
C1_Witness ==
    /\ distRes.st = "ok"
    /\ Len(bucket.entries) = 2
    /\ \E i \in 1..Len(distRes.allocs) :
          Cardinality({t \in 1..Len(distRes.to_ndays) : distRes.allocs[i][t] # R(0)}) = 2

\* C2: every source entry's value goes only to the greatest target key <= k
\* and the smallest target key >= k, taken over all target keys, and goes
\* whole to the one that exists when the other does not, whatever the order
\* of the target labels.
C2_NearestTargets ==
    Distributed =>
        \A i \in 1..Len(distRes.allocs) :
            LET k == bucket.entries[i].dc_count
                below == {x \in TargetKeys : x <= k}
                above == {x \in TargetKeys : x >= k}
                nearest ==
                    {x \in below : \A y \in below : y <= x}
                    \cup {x \in above : \A y \in above : y >= x}
            IN \A t \in 1..Len(distRes.to_ndays) :
                  distRes.allocs[i][t] # R(0) => distRes.to_ndays[t] \in nearest

\* C3: a source entry whose key is the key of a target is distributed, whole
\* to a target of that key and nothing to any other, for any sequence of
\* targets.
C3_ExactMatchWhole ==
    Distributed =>
        \A i \in 1..Len(bucket.entries) :
            bucket.entries[i].dc_count \in TargetKeys =>
                /\ Len(distRes.allocs) >= i
                /\ \E t \in 1..Len(distRes.to_ndays) :
                      /\ distRes.to_ndays[t] = bucket.entries[i].dc_count
                      /\ distRes.allocs[i] =
                            AddAt(Zeros(Len(distRes.to_ndays)), t, bucket.entries[i].value)

\* C8: no Bucket is built from labels two of which have the same day-count
\* key.
C8_DuplicateKeysRejected ==
    bucket.st = "ok" =>
        \A i, j \in 1..Len(bucket.entries) :
            i # j => bucket.entries[i].dc_count # bucket.entries[j].dc_count

\* C9: a constructed Bucket's labels are in ascending day-count-key order,
\* and its entries are the label/value pairs supplied, each label with the
\* value of its input position.
C9_SortedPairsKept ==
    bucket.st = "ok" =>
        /\ \A i \in 1..(Len(bucket.entries) - 1) :
              bucket.entries[i].dc_count <= bucket.entries[i + 1].dc_count
        /\ Len(bucket.entries) = Len(bucketArgs.labels)
        /\ \E p \in Perms(Len(bucket.entries)) :
              \A i \in 1..Len(bucket.entries) :
                  /\ bucket.entries[i].label = bucketArgs.labels[p[i]].text
                  /\ bucket.entries[i].dc_count = LabelNew(bucketArgs.labels[p[i]]).dc_count
                  /\ bucketArgs.given => bucket.entries[i].value = bucketArgs.values[p[i]]
                  /\ ~bucketArgs.given => IsNaN(bucket.entries[i].value)

\* a Bucket was built from labels supplied in descending order
C9_Witness ==
    /\ bucket.st = "ok"
    /\ Len(bucketArgs.labels) = 2
    /\ bucketArgs.labels[1].text = L3Y /\ bucketArgs.labels[2].text = L1Y
    /\ bucketArgs.values = <<R(100), R(-100)>>

\* distribute_values has returned an array
ArrayReturned == distRes.st = "ok" /\ distRes.bkt.st = "none"

\* what the turns of the loop added to target position t
AllocatedTo(t) == RSum([e \in 1..Len(distRes.allocs) |-> distRes.allocs[e][t]])

\* C21: with return_bucket=False distribute_values returns an array with one
\* entry per target label, in the order the caller supplied the targets, and
\* entry t is the total allocated to the t-th target
C21_ArrayInTargetOrder ==
    ArrayReturned =>
        /\ Len(distRes.array) = Len(distRes.verts)
        /\ \A t \in 1..Len(distRes.verts) :
              /\ distRes.to_ndays[t] = LabelNew(distRes.verts[t]).dc_count
              /\ distRes.array[t] = AllocatedTo(t)

\* a value split between two targets supplied in descending order
C21_Witness ==
    /\ ArrayReturned
    /\ Len(distRes.verts) = 2
    /\ distRes.verts[1].text = L2Y /\ distRes.verts[2].text = L1Y
    /\ Len(bucket.entries) = 1
    /\ bucket.entries[1].label = L500D
    /\ distRes.array = <<Norm(350, 9), Norm(550, 9)>>

\* the Bucket holds a NaN or a missing value
HoldsMissing ==
    \E i \in 1..Len(bucket.entries) :
        IsNaN(bucket.entries[i].value) \/ bucket.entries[i].value = PyNone

\* C22: distribute_values on a Bucket holding a NaN or a missing value fails
\* with ValueError, before any value is allocated and with no partial result
C22_MissingValueError ==
    bucket.st = "ok" /\ HoldsMissing /\ distRes.st # "none" =>
        /\ distRes.st = "ValueError"
        /\ distRes.allocs = <<>> /\ distRes.distributed = <<>>
        /\ distRes.array = <<>> /\ distRes.bkt.st = "none"

\* the Label objects of the source's index that the returned Bucket holds too
SharedLabels == {distRes.bkt.entries[e].oid : e \in 1..Len(distRes.bkt.entries)} \ {0}
GivenLabels ==
    {distRes.verts[t].oid : t \in {u \in 1..Len(distRes.verts) : distRes.verts[u].kind = "Label"}}

\* C23, as stated: a Bucket returned by distribute_values shares no state
\* with the source, so it holds none of the Label objects of the source
C23_SharesNoState == distRes.bkt.st = "ok" => SharedLabels = {}

\* C23, amended: no call of distribute_values or to_dates, returning or
\* failing, changes the labels, the values or the order of the source, and a
\* returned Bucket holds new values and, of the source's Label objects,
\* exactly those the caller gave as targets
C23_SourceKept ==
    [][/\ bucket.st = "ok" => bucket' = bucket
       /\ distRes'.bkt.st = "ok" =>
             {distRes'.bkt.entries[e].oid : e \in 1..Len(distRes'.bkt.entries)} \ {0}
               = {distRes'.verts[t].oid :
                    t \in {u \in 1..Len(distRes'.verts) : distRes'.verts[u].kind = "Label"}}]_vars

C23_Witness ==
    /\ distRes.st = "ok" /\ distRes.bkt.st = "ok"
    /\ Len(bucket.entries) = 2
    /\ bucket.entries[1].label = <<"1", "Y">> /\ bucket.entries[1].value = R(-100)
    /\ SharedLabels = {1}
    /\ GivenLabels = {1}
    /\ Len(distRes.bkt.entries) = 1

\* distribute_values got past its checks of the values and of the targets,
\* on a source without NaN and at least one target
Allocating ==
    /\ bucket.st = "ok" /\ ~HoldsMissing
    /\ distRes.st # "none" /\ distRes.to_ndays # <<>>

\* the proportional-split branch is taken for the source key k
SplitFor(k) ==
    LET left == FindLeft(distRes.to_ndays, k)
        right == FindRight(distRes.to_ndays, k)
    IN left # None /\ right # None /\ left # right

\* C27: for a source without NaN and at least one target, whenever the
\* proportional-split branch is taken for a source key k, the weights
\* (right - k) / (right - left) and (k - left) / (right - left) are strictly
\* between 0 and 1 and sum to 1, and no sanity assertion fails
C27_WeightsProper ==
    Allocating =>
        /\ distRes.st # "AssertionError"
        /\ \A i \in 1..Len(bucket.entries) :
              LET k == bucket.entries[i].dc_count
                  left == FindLeft(distRes.to_ndays, k)
                  right == FindRight(distRes.to_ndays, k)
                  perc_left == Norm(right - k, right - left)
                  perc_right == Norm(k - left, right - left)
              IN SplitFor(k) =>
                    /\ RLt(R(0), perc_left) /\ RLt(perc_left, R(1))
                    /\ RLt(R(0), perc_right) /\ RLt(perc_right, R(1))
                    /\ RAdd(perc_left, perc_right) = R(1)

-----------------------------------------------------------------------------
(* Claims about rate2fct and fct2rate *)

\* fct2rate has returned for the factor rate2fct made
RoundTripDone == rateRes.st = "rate"

\* C10 as the specification states it: for every rate, compounding mode, day
\* count and pair of dates rate2fct accepts, fct2rate of the factor returns
\* the rate
C10_AsStated == RoundTripDone => rateRes.rate = Rat(rateArgs.rates)

\* C10: for every compounding mode, day count and pair of dates with a
\* term above zero, and every rate (of at least -1 under YIELD), fct2rate of
\* the factor rate2fct returns is the rate
C10_RoundTrip ==
    (/\ RoundTripDone
     /\ RLt(R(0), TermOf(rateArgs))
     /\ (rateArgs.compounding = "YIELD" => RLe(R(-1), rateArgs.rates)))
    => rateRes.rate = Rat(rateArgs.rates)

C10_Witness ==
    /\ RoundTripDone
    /\ RLt(R(0), TermOf(rateArgs))
    /\ rateArgs.compounding = "YIELD"
    /\ rateArgs.day_count = "BUS/252"
    /\ rateArgs.rates = Norm(1, 10)
    /\ rateRes.fct.t = "prod"
    /\ rateRes.rate = Rat(Norm(1, 10))

\* _calc_term has returned the ACT/ACT term of a pair of dates
ActActTerm == rateRes.st = "term" /\ rateArgs.day_count = "ACT/ACT"

\* the days of [start, end) that fall in the year, over the days of that year
YearShare(start, end, year) ==
    Norm(Cardinality({d \in start..(end - 1) : YearOf(d) = year}),
         IF (year % 4 = 0 /\ year % 100 # 0) \/ year % 400 = 0 THEN 366 ELSE 365)

\* C28: under ACT/ACT the term from start to end, start <= end, is the sum
\* over the calendar years of the days of [start, end) in that year divided
\* by 366 for a leap year and 365 otherwise, and for every pair of dates
\* term(end, start) = -term(start, end)
C28_ActActByYear ==
    ActActTerm =>
        LET start == rateArgs.start_dates
            end == rateArgs.end_dates
        IN /\ start <= end =>
                rateRes.term = RSum([i \in 1..4 |-> YearShare(start, end, 2015 + i)])
           /\ calc_term(end, start, "ACT/ACT", rateArgs.cal, rateArgs.numpy125)
                = RNeg(rateRes.term)

C28_Witness ==
    /\ ActActTerm
    /\ rateArgs.start_dates = 1 /\ rateArgs.end_dates = 369
    /\ rateRes.term = RAdd(RAdd(Norm(2, 366), R(1)), Norm(1, 365))

-----------------------------------------------------------------------------
(* Claims about Curve *)

Attempted == curve.st # "none"
Built == curve.st = "ok"

GivenStarts == NormalizedStarts(curveCfg)
GivenEnds == curveCfg.end_dates

\* segment i starts off the reference date, at no end date of a segment
\* before it
Unresolved(i) ==
    /\ GivenStarts[i] # GivenStarts[1]
    /\ \A j \in 1..(i - 1) : GivenEnds[j] # GivenStarts[i]

SomeUnresolved == \E i \in 1..Len(GivenEnds) : Unresolved(i)
FirstUnresolved == CHOOSE i \in 1..Len(GivenEnds) :
                      Unresolved(i) /\ \A k \in 1..(i - 1) : ~Unresolved(k)

StrictlyAscending(xs) == \A i \in 1..(Len(xs) - 1) : xs[i] < xs[i + 1]

BusdayDistancesDistinct ==
    \A i, j \in 1..Len(GivenEnds) :
        i # j => bdbetween(GivenStarts[1], GivenEnds[i], curveCfg.cal, curveCfg.numpy125)
                 # bdbetween(GivenStarts[1], GivenEnds[j], curveCfg.cal, curveCfg.numpy125)

EndDatesAccepted ==
    /\ StrictlyAscending(GivenEnds)
    /\ curveCfg.day_count = "BUS/252" => BusdayDistancesDistinct

SegmentTerm(k) == calc_term(GivenStarts[k], GivenEnds[k], curveCfg.day_count,
                            curveCfg.cal, curveCfg.numpy125)

\* C4 as the specification states it: construction fails with the
\* unresolvable-chain ValueError whenever some segment is unresolved
C4_AsStated ==
    (Attempted /\ SomeUnresolved) => (curve.st = "ValueError" /\ curve.err = "chain")

\* C4: whenever some segment i starts off the reference date and no segment
\* j < i ends at its start date, construction fails with a ValueError, an end
\* date matching only at a later index resolving nothing; it is the
\* unresolvable-chain one when the end dates are strictly ascending with
\* distinct BUS/252 distances, the interp_method is valid and no segment up to
\* the first unresolved one has a negative term
C4_ChainError ==
    (Attempted /\ SomeUnresolved) =>
        /\ curve.st = "ValueError"
        /\ (/\ EndDatesAccepted
            /\ curveCfg.interp_method \in {"LIN", "EXP"}
            /\ \A k \in 1..FirstUnresolved : RLe(R(0), SegmentTerm(k)))
           => curve.err = "chain"

C4_Witness ==
    /\ curve.st = "ValueError" /\ curve.err = "chain"
    /\ \E i \in 1..Len(GivenEnds) :
          Unresolved(i) /\ \E j \in (i + 1)..Len(GivenEnds) : GivenEnds[j] = GivenStarts[i]

\* C5: construction fails with ValueError unless the end dates are strictly
\* ascending and, under BUS/252, their business-day distances from the
\* reference date are pairwise distinct; in every constructed Curve ndays is
\* strictly increasing
C5_EndDatesChecked ==
    /\ (Attempted /\ ~EndDatesAccepted) => curve.st = "ValueError"
    /\ Built => StrictlyAscending(curve.ndays)

C5_Witness ==
    /\ Built
    /\ curve.day_count = "BUS/252"
    /\ Len(curve.ndays) = 3
    /\ StrictlyAscending(curve.ndays)

\* C6: in every constructed Curve, under every day count, the reference date
\* is the earliest of the start dates and no end date lies before it
C6_RefDateEarliest ==
    Built => \A i \in 1..Len(curve.end_dates) :
                /\ curve.ref_date <= curve.start_dates[i]
                /\ curve.ref_date <= curve.end_dates[i]

\* one of the conversions has returned or raised
Converted == rateRes.st \notin {"none", "term"}

\* C11: rate2fct and fct2rate raise ValueError whenever the end date is
\* earlier than the start date, under each day count, and never when the end
\* date is on or after the start date
C11_EarlierEndRejected ==
    Converted => (rateRes.st = "ValueError" <=> rateArgs.end_dates < rateArgs.start_dates)

\* interp has returned for a date
Interpolated == query.st = "ok" /\ query.op = "interp"

LastVertex == Len(curve.end_dates)

\* C12: for LIN and EXP curves, interp at a date after the last end date
\* returns the rate of the last vertex, and at a date before the first end
\* date the rate of the first vertex
C12_FlatExtrapolation ==
    Interpolated =>
        /\ query.dates > curve.end_dates[LastVertex] => query.res = curve.rates[LastVertex]
        /\ query.dates < curve.end_dates[1] => query.res = curve.rates[1]

C12_Witness ==
    /\ Interpolated
    /\ curve.interp_method = "EXP"
    /\ LastVertex = 3
    /\ query.dates > curve.end_dates[LastVertex]
    /\ query.res = curve.rates[LastVertex]
    /\ curve.rates[LastVertex] # curve.rates[1]

\* the query the step makes is the one the state before it holds the result of
SameQuery == query'.op = query.op /\ query'.dates = query.dates

\* C24: no call of interp or fra_interp, returning or failing, changes an
\* attribute of the Curve, and a query made again gives the result it gave
C24_CurveKept ==
    [][curve.st = "ok" => /\ curve' = curve
                          /\ SameQuery => query' = query]_vars

C24_Witness ==
    /\ curve.st = "ok" /\ curve.interp_method = "EXP" /\ Len(curve.end_dates) = 2
    /\ query.op = "fra_interp" /\ query.st = "ok"
    /\ query.dates = <<curve.end_dates[1], curve.end_dates[2]>>
    /\ query.res.t = "rat"

\* rate2fct(rates[i], start_dates[i], end_dates[i]) under the conventions given
SegmentFactor(i) ==
    rate2fct(Rat(curveCfg.rates[i]), curve.start_dates[i], curve.end_dates[i],
             curveCfg.compounding, curveCfg.day_count, curveCfg.cal, curveCfg.numpy125).v

\* the segments before i that end where segment i starts
EarlierEnding(i) == {j \in 1..(i - 1) : curve.end_dates[j] = curve.start_dates[i]}

\* C26: in every constructed Curve the ZC factor stored for segment i is its
\* own segment factor when it starts at the reference date, and otherwise
\* that factor times the stored ZC factor of the one earlier segment that
\* ends where it starts
C26_ChainedFactors ==
    Built => \A i \in 1..Len(curve.end_dates) :
                IF curve.start_dates[i] = curve.ref_date
                THEN curve.factors[i] = SegmentFactor(i)
                ELSE /\ Cardinality(EarlierEnding(i)) = 1
                     /\ curve.factors[i]
                          = NumMul(SegmentFactor(i),
                                   curve.factors[CHOOSE j \in EarlierEnding(i) : TRUE])

C26_Witness ==
    /\ Built
    /\ curve.start_dates = <<0, 1, 2>> /\ curve.end_dates = <<1, 2, 3>>
    /\ curve.day_count = "ACT/360" /\ curve.compounding = "LINEAR"
    /\ curve.factors[1] = Rat(Norm(361, 360))
    /\ curve.factors[2] = Rat(RMul(Norm(361, 360), Norm(362, 360)))
    /\ curve.factors[3] = Rat(RMul(RMul(Norm(361, 360), Norm(362, 360)), Norm(361, 360)))

\* interp has returned or raised for the end date of vertex i
AtVertex(i) == query.op = "interp" /\ query.dates = curve.end_dates[i]

\* rate2fct(rates[i], ref_date, end_dates[i]) under the Curve's conventions
FactorOfRate(i) ==
    rate2fct(curve.rates[i], curve.ref_date, curve.end_dates[i],
             curve.compounding, curve.day_count, curve.cal, curveCfg.numpy125)

\* the term from the reference date to the end date of vertex i
VertexTerm(i) ==
    calc_term(curve.ref_date, curve.end_dates[i], curve.day_count, curve.cal,
              curveCfg.numpy125)

\* C29, as stated: at every vertex i of a constructed Curve interp returns
\* rates[i], and rates[i] is the rate whose factor from the reference date to
\* end_dates[i] is factors[i]
C29_AsStated ==
    \A i \in 1..Len(curve.end_dates) :
        AtVertex(i) => /\ query.st = "ok" /\ query.res = curve.rates[i]
                       /\ FactorOfRate(i) = Returned(curve.factors[i])

\* C29, amended: at every vertex i of a constructed Curve interp returns
\* rates[i]; where the term from the reference date to end_dates[i] is above
\* zero, rates[i] is the rate whose factor over that term is factors[i], and
\* where it is zero factors[i] is 1 and rates[i] is 0 under YIELD and nan
\* under LINEAR and CONTINUOUS
C29_VertexRates ==
    \A i \in 1..Len(curve.end_dates) :
        AtVertex(i) =>
            /\ query.st = "ok" /\ query.res = curve.rates[i]
            /\ RLt(R(0), VertexTerm(i)) => FactorOfRate(i) = Returned(curve.factors[i])
            /\ VertexTerm(i) = R(0) =>
                    /\ curve.factors[i] = Rat(R(1))
                    /\ curve.rates[i] = IF curve.compounding = "YIELD" THEN Rat(R(0))
                                         ELSE Special("nan")

C29_Witness ==
    /\ curve.interp_method = "EXP" /\ curve.compounding = "YIELD"
    /\ curve.day_count = "ACT/365"
    /\ curve.start_dates = <<0, 1>> /\ curve.end_dates = <<1, 3>>
    /\ AtVertex(2) /\ query.st = "ok"
    /\ query.res = curve.rates[2]
    /\ query.res.t = "pm1"
    /\ FactorOfRate(2) = Returned(curve.factors[2])


\* the sequential lookup that has returned or raised
TheCaller == callers[1]
LookedUp == TheCaller.pc = "done" /\ TheCaller.str

\* the lookup named one code and returned
SingleCode(me) == me.pc = "done" /\ me.st = "ok" /\ Len(me.cals) = 1

\* C13: in any sequence of lookups, an entry of the cache is never replaced,
\* modified or removed, and a single-code lookup of a cached code returns the
\* cached object and reads no file
C13_EntriesKept ==
    [][\A c \in CacheKeys :
          calendars[c] # NoCal =>
              /\ calendars'[c] = calendars[c]
              /\ SingleCode(callers'[1]) /\ callers'[1].cals[1] = c =>
                    /\ callers'[1].res = calendars[c]
                    /\ callers'[1].reads = 0
                    /\ loads'[c] = loads[c]]_vars

C13_Witness ==
    /\ SingleCode(TheCaller)
    /\ TheCaller.words = <<"usd">>
    /\ TheCaller.reads = 0
    /\ TheCaller.res = calendars["USD"]
    /\ loads["USD"] = 1

\* the callers that have returned from a single-code lookup of c
Holders(c) == {t \in DOMAIN callers : SingleCode(callers[t]) /\ callers[t].cals[1] = c}

\* C14: under every interleaving of concurrent lookups a calendar is loaded
\* and stored once, and every caller that asked for the code holds the same
\* object
C14_LoadedOnce ==
    \A c \in CacheKeys :
        /\ loads[c] <= 1
        /\ \A t, u \in Holders(c) : callers[t].res = callers[u].res

\* the lookup named the code that has no file
NamesUnknown(me) == me.pc = "done" /\ me.str /\ \E i \in 1..Len(me.cals) : me.cals[i] = "XXX"

\* C15: a lookup that names an unrecognized code fails with the error of the
\* missing calendar, adds no entry for that code and leaves the entries
\* already in the cache as they were
C15_UnknownCodeFails ==
    [][NamesUnknown(callers'[1]) =>
          /\ callers'[1].st = "ValueError"
          /\ calendars'["XXX"] = NoCal
          /\ \A c \in CacheKeys : calendars[c] # NoCal => calendars'[c] = calendars[c]]_vars

C15_Witness ==
    /\ NamesUnknown(TheCaller)
    /\ TheCaller.words = <<"usd", "XXX">>
    /\ TheCaller.st = "ValueError"
    /\ calendars["USD"] # NoCal
    /\ calendars["BRL"] # NoCal
    /\ calendars["XXX"] = NoCal

\* the lookup named several codes and returned
MultiCode(me) == me.pc = "done" /\ me.st = "ok" /\ Len(me.cals) > 1

\* the codes a lookup named, whatever their order and case
NamedCodes(me) == {Upper(me.words[i]) : i \in 1..Len(me.words)}

\* C16: the holidays of a cross-calendar are the union of the holidays of
\* the named calendars, in whatever order and case they were named, and a
\* date is a business day under it exactly when it is no Saturday or Sunday
\* and a holiday in none of them
C16_CrossCalendarUnion ==
    MultiCode(TheCaller) =>
        /\ TheCaller.res.holidays = UNION {calendars[c].holidays : c \in NamedCodes(TheCaller)}
        /\ \A d \in Dates :
              IsBusdayOf(d, TheCaller.res) <=>
                  /\ ~IsWeekend(d)
                  /\ \A c \in NamedCodes(TheCaller) : d \notin Holidays(c)
        /\ TheCaller.date # None =>
              (TheCaller.out <=> /\ ~IsWeekend(TheCaller.date)
                                 /\ \A c \in NamedCodes(TheCaller) :
                                       TheCaller.date \notin Holidays(c))

C16_Witness ==
    /\ MultiCode(TheCaller)
    /\ TheCaller.words = <<"BRL", "usd">>
    /\ TheCaller.date = 1
    /\ ~TheCaller.out
    /\ IsBusdayOf(1, calendars["BRL"])
    /\ TheCaller.res.holidays = {1}

-----------------------------------------------------------------------------
(* Claims about Label.to_date *)

\* to_date has returned a date
Shifted == toDate.st = "ok"
AdjustOf == Upper(toDate.date_adjust.word)
MonthsOf == 12 * toDate.letter_map["Y"] + toDate.letter_map["M"]
DaysOf == 7 * toDate.letter_map["W"] + toDate.letter_map["D"]

\* the code of the calendar given, if one was
CalCode == IF toDate.cal.words = <<>> THEN "" ELSE Upper(toDate.cal.words[1])

\* x is d moved n calendar months on
IsMonthsLater(x, d, n) ==
    /\ 12 * YearOf(x) + MonthOf(x) = 12 * YearOf(d) + MonthOf(d) + n
    /\ DayOf(x) = Min(DayOf(d), DaysInMonth(YearOf(x), MonthOf(x)))

\* x is the first business day on or after d, and the last on or before d
IsFirstBusdayFrom(x, d) ==
    /\ x >= d /\ IsBusday(x, CalCode)
    /\ \A z \in d..(x - 1) : ~IsBusday(z, CalCode)
IsLastBusdayTo(x, d) ==
    /\ x <= d /\ IsBusday(x, CalCode)
    /\ \A z \in (x + 1)..d : ~IsBusday(z, CalCode)

FirstBusdayFrom(d) == CHOOSE x \in d..(d + 7) : IsFirstBusdayFrom(x, d)
LastBusdayTo(d) == CHOOSE x \in (d - 7)..d : IsLastBusdayTo(x, d)

\* the first business day from d if it is in the month of d, else the last
\* business day before d
ModifiedFollowingOf(d) ==
    IF MonthOf(FirstBusdayFrom(d)) = MonthOf(d) THEN FirstBusdayFrom(d)
    ELSE LastBusdayTo(d)

\* the date after the month step and its roll, and after the day step
AfterMonths ==
    IF MonthsOf = 0 THEN toDate.ref_date
    ELSE IF AdjustOf = "DU" THEN ModifiedFollowingOf(AddMonths(toDate.ref_date, MonthsOf))
    ELSE AddMonths(toDate.ref_date, MonthsOf)
AfterDays ==
    IF DaysOf = 0 THEN AfterMonths
    ELSE IF AdjustOf = "DU" THEN FirstBusdayFrom(AfterMonths + DaysOf)
    ELSE AfterMonths + DaysOf

C18_BusinessDay ==
    Shifted /\ AdjustOf = "DU" /\ CalCode \in KnownCodes => IsBusday(toDate.res, CalCode)

-----------------------------------------------------------------------------
(* Claims about the comparison of Labels *)

Compared == compared.st = "done"
SelfKey == compared.self.dc_count
OtherKey == compared.other.obj.dc_count
Holds(r) == r.st = "ok" /\ r.v

\* C19: for two Labels each of <, <=, ==, >, >= gives the comparison of
\* their day-count keys, so exactly one of <, ==, > holds; comparing a Label
\* with an object that is no Label raises TypeError
C19_ComparedByKey ==
    Compared =>
        IF compared.other.isLabel
        THEN /\ compared.lt = Gives(SelfKey < OtherKey)
             /\ compared.le = Gives(SelfKey <= OtherKey)
             /\ compared.eq = Gives(SelfKey = OtherKey)
             /\ compared.gt = Gives(SelfKey > OtherKey)
             /\ compared.ge = Gives(SelfKey >= OtherKey)
             /\ Cardinality({r \in {"lt", "eq", "gt"} : Holds(compared[r])}) = 1
        ELSE \A r \in {"lt", "le", "eq", "gt", "ge"} : compared[r].st = "TypeError"

C19_Witness ==
    /\ Compared
    /\ compared.other.isLabel
    /\ compared.self.label = <<"1", "Y">>
    /\ compared.other.obj.label = <<"1", "Y", "0", "D">>
    /\ Holds(compared.eq) /\ Holds(compared.le) /\ Holds(compared.ge)
    /\ ~Holds(compared.lt) /\ ~Holds(compared.gt)

\* Label(text) has returned a Label
Parsed == labelRes.st = "ok" /\ labelArg.kind = "str"

\* the count the text gives for unit c, 0 when the unit is absent
CountIn(text, c) ==
    IF \E i \in 1..Len(text) : text[i] = c
    THEN LET u == CHOOSE i \in 1..Len(text) : text[i] = c
         IN IntOf(SubSeq(text, CHOOSE p \in 1..u :
                                   /\ \A j \in p..(u - 1) : text[j] \in Digits
                                   /\ (p = 1 \/ text[p - 1] \notin Digits),
                         u - 1))
    ELSE 0

\* C20: for every valid label letter_map holds the parsed count of each unit
\* present and 0 for each unit absent, and dc_count is D + 7W + 30M + 360Y
C20_DayCountKey ==
    Parsed =>
        /\ \A c \in Units : labelRes.letter_map[c] = CountIn(labelArg.text, c)
        /\ labelRes.dc_count = CountIn(labelArg.text, "D") + 7 * CountIn(labelArg.text, "W")
                                + 30 * CountIn(labelArg.text, "M")
                                + 360 * CountIn(labelArg.text, "Y")

C20_Witness ==
    /\ Parsed
    /\ labelArg.text = <<"1", "Y", "2", "M", "1", "W", "0", "D">>
    /\ labelRes.letter_map = [c \in Units |-> CASE c = "Y" -> 1 [] c = "M" -> 2
                                                [] c = "W" -> 1 [] c = "D" -> 0]
    /\ labelRes.dc_count = 427

\* C30: any two Labels that compare equal have the same hash
C30_EqualLabelsHashAlike ==
    (Compared /\ compared.other.isLabel /\ compared.eq = Gives(TRUE))
        => compared.hash_self = compared.hash_other

-----------------------------------------------------------------------------
(* Claims about CSVDataAppender *)

\* the step is an append_row call
Appending == appender'.calls = appender.calls + 1

\* the frame's index holds the date the call was given
Present == \E i \in 1..Len(appender.index) : appender.index[i] = Timestamp(appender'.last)

\* C25: in any sequence of append_row calls, for a date the date index
\* holds func is not called and the frame is left unchanged, a row is added
\* and func is called only for a date it does not hold, and the index never
\* holds a date twice
C25_PresentDateSkipped ==
    [][Appending =>
         /\ Present => /\ appender'.invoked = appender.invoked
                       /\ appender'.index = appender.index
                       /\ appender'.rows = appender.rows
         /\ AllUnique(appender'.index)]_vars

=============================================================================
